---- MODULE Spec2Model ----
(***************************************************************************)
(* TreadMore: the pattern generators (WalkJogPattern, SkipPattern,         *)
(* GallopPattern) and the StepScheduler of src/src/App.tsx, run against    *)
(* the transport of src/src/__tests__/toneMock.ts.                         *)
(*                                                                         *)
(* Numbers.  The program computes in seconds with JavaScript numbers.  The *)
(* model uses exact fixed-point arithmetic: the real x is the integer      *)
(* x * SCALE, SCALE = 36 000 000 ticks per unit.  Every input is a         *)
(* multiple of 0.001 (Num(n) is n/1000), and on that grid every product,   *)
(* halving and division by three the generators perform is exact, so no    *)
(* rounding is introduced by the model.  IEEE rounding of the program's    *)
(* doubles (below 1e-15 s) is not modelled.                                *)
(***************************************************************************)
EXTENDS Integers, Sequences, FiniteSets, TLC

VARIABLES
    \* ---- generator harness (SpecGen) ----
    g_kind,             \* PatternKind handed to PATTERNS[kind].build
    g_period,           \* the period argument
    g_asymmetry,        \* the asymmetry argument
    g_seq,              \* Null, or <<the StepSequence build returned>>
    g_iv,               \* Null, or <<the intervals build computed (its locals)>>
    g_other             \* Null, or <<a second build of the same kind: its arguments and result>>

gvars == <<g_kind, g_period, g_asymmetry, g_seq, g_iv, g_other>>

VARIABLES
    \* ---- StepScheduler fields ----
    running,            \* boolean
    currentSequence,    \* Null, or <<StepSequence>>
    pendingSequence,    \* Null, or <<StepSequence>>
    nextCycleId,        \* Null, or <<transport event id>>
    scheduledActionIds, \* sequence of transport event ids
    \* ---- the transport (Tone.Transport) ----
    seconds,            \* the transport clock
    nextId,             \* the id the next scheduled event gets
    events,             \* outstanding events, in registration order: [id, time, cb]
    \* ---- what the collaborators received ----
    toneLog,            \* synth.triggerAttackRelease calls since playback started: [synth, note, time, wallTime]
    spriteLog,          \* Tone.Draw.schedule calls: [sprite, time]
    stepLog,            \* logEvent('step', ...) payloads: [pattern, foot, at]
    \* ---- history (not program state) ----
    cycleLog,           \* the cycles materialized since playback started: [start, sequence, plannedAt]
    lastApply,          \* Null, or <<the last applySequence on a running scheduler: [inCycle, planned, sequence]>>
    lastStart,          \* Null, or <<the start calls that began this playback: [sequence, calls in a row]>>
    lastFired,          \* Null, or <<the id of the event the transport ran last since it was last reset>>
    nApply,             \* applySequence calls so far
    nStop,              \* stop and dispose calls so far
    nStart              \* start calls so far

svars == <<running, currentSequence, pendingSequence, nextCycleId, scheduledActionIds,
           seconds, nextId, events, toneLog, spriteLog, stepLog,
           cycleLog, lastApply, lastStart, lastFired, nApply, nStop, nStart>>

VARIABLES
    \* ---- the App component (SpecUI) ----
    pattern,            \* PatternKind selected
    periodInput,        \* what parseFloat reads in the period box: Null (not a finite number) or <<number>>
    asymmetryInput,     \* the same for the asymmetry box
    isPlaying,          \* boolean
    awaiting            \* handlers suspended at await Tone.start(): [handler, kind, period,
                        \* asymmetry, substituted (history: the asymmetry input was replaced)]

uvars == <<pattern, periodInput, asymmetryInput, isPlaying, awaiting>>

VARIABLES
    \* ---- the slider prototype, second component of src/prototype.js (SpecProto) ----
    protoIsPlaying,       \* isPlaying of that component, as last rendered
    currentPattern,       \* Pattern [period, as], React state
    queuedPattern,        \* Null, or <<Pattern>>, React state
    currentPatternRef,    \* Pattern
    queuedPatternRef,     \* Null, or <<Pattern>>
    nextFootRef,          \* "L" or "R"
    roundsUntilSwitchRef, \* number
    loopRef,              \* Null, or <<interval of the Tone.Loop that calls scheduleNextLoop>>
    starting,             \* startMetronome calls suspended at await Tone.start(): [isPlaying, currentPattern] as rendered at the click
    \* ---- history (not program state) ----
    lastScheduled,        \* Null, or <<the pattern of the last schedulePattern call>>
    lastQueue,            \* Null, or <<the last queuePattern made while playing, if still queued: [pattern, loops since]>>
    nLoop,                \* scheduleNextLoop calls so far
    nQueue,               \* queuePattern calls so far
    nToggle               \* clicks on the start/stop button so far

pvars == <<protoIsPlaying, currentPattern, queuedPattern, currentPatternRef, queuedPatternRef,
           nextFootRef, roundsUntilSwitchRef, loopRef, starting,
           lastScheduled, lastQueue, nLoop, nQueue, nToggle>>

vars == <<gvars, svars, uvars, pvars>>

----------------------------------------------------------------------------
(* Nullable values: null is the empty tuple, a value v is <<v>>.            *)
Null == <<>>
Some(v) == <<v>>

(* Fixed-point numbers.                                                     *)
ROOT == 6 * 1000
SCALE == ROOT * ROOT
Num(thousandths) == thousandths * (SCALE \div 1000)
ONE == Num(1000)

Mul(x, y) == (x \div ROOT) * (y \div ROOT)  \* x * y, exact for multiples of ROOT
Half(x) == x \div 2                        \* x / 2
Third(x) == x \div 3                       \* x / 3

Min2(a, b) == IF a <= b THEN a ELSE b
Max2(a, b) == IF a >= b THEN a ELSE b

RECURSIVE MinOf(_)
MinOf(s) == IF Len(s) = 1 THEN s[1] ELSE Min2(s[1], MinOf(Tail(s)))

----------------------------------------------------------------------------
(* Program constants, src/src/App.tsx lines 29-37.                          *)
PERIOD_MIN == Num(500)
PERIOD_MAX == Num(2000)
DEFAULT_PERIOD == Num(1000)
DEFAULT_ASYMMETRY == Num(500)
ASYMMETRY_EPSILON == Num(1)
INTERVAL_SWITCH_CAP == Num(100)
SCHEDULER_LOOKAHEAD == Num(100)
LEFT_NOTE == "C5"
RIGHT_NOTE == "E5"

PatternKind == {"walk", "skip", "gallop"}

----------------------------------------------------------------------------
(* Pattern generators.                                                      *)

clampPeriodLow(value) == Min2(PERIOD_MAX, value)

clampPeriod(value) == Min2(PERIOD_MAX, Max2(PERIOD_MIN, value))

clampAsymmetryNone(value) == value

clampAsymmetryClosed(value) == Min2(ONE, Max2(0, value))

clampAsymmetry(value) ==
    LET lower == ASYMMETRY_EPSILON
        upper == ONE - ASYMMETRY_EPSILON
    IN  Min2(upper, Max2(lower, value))

minSwitchFirst(intervals) == Min2(INTERVAL_SWITCH_CAP, Third(intervals[1]))

minSwitch(intervals) ==
    MinOf(<<INTERVAL_SWITCH_CAP>> \o [k \in 1..Len(intervals) |-> Third(intervals[k])])

ToneAction(offset, foot, note) ==
    [type |-> "tone", offset |-> offset, foot |-> foot, note |-> note]

SpriteAction(offset, sprite) ==
    [type |-> "sprite", offset |-> offset, sprite |-> sprite]

WalkJogUsesAsymmetry(period, asymmetry) ==
    LET safePeriod == clampPeriod(period)
        intervalRL == Mul(safePeriod, clampAsymmetry(asymmetry))
        intervalLR == safePeriod - intervalRL
    IN  [safePeriod |-> safePeriod,
         intervalLR |-> intervalLR,
         intervalRL |-> intervalRL,
         intervalSwitch |-> minSwitch(<<intervalLR, intervalRL>>)]

(* The locals of WalkJogPattern.build.                                      *)
WalkJogIntervals(period, asymmetry) ==
    LET safePeriod == clampPeriod(period)
        intervalLR == Half(safePeriod)
        intervalRL == intervalLR
    IN  [safePeriod |-> safePeriod,
         intervalLR |-> intervalLR,
         intervalRL |-> intervalRL,
         intervalSwitch |-> minSwitch(<<intervalLR, intervalRL>>)]

WalkJogPattern_buildLandedSprites(period, asymmetry) ==
    LET iv == WalkJogIntervals(period, asymmetry)
    IN  [name |-> "walk/jog",
         duration |-> iv.intervalLR + iv.intervalRL,
         actions |-> << ToneAction(0, "L", LEFT_NOTE),
                        SpriteAction(iv.intervalSwitch, "L"),
                        ToneAction(iv.intervalLR, "R", RIGHT_NOTE),
                        SpriteAction(iv.intervalLR + iv.intervalSwitch, "R") >>]

WalkJogPattern_build(period, asymmetry) ==
    LET iv == WalkJogIntervals(period, asymmetry)
    IN  [name |-> "walk/jog",
         duration |-> iv.intervalLR + iv.intervalRL,
         actions |-> << ToneAction(0, "L", LEFT_NOTE),
                        SpriteAction(iv.intervalSwitch, "Lj"),
                        ToneAction(iv.intervalLR, "R", RIGHT_NOTE),
                        SpriteAction(iv.intervalLR + iv.intervalSwitch, "Rj") >>]

SkipIntervalsLongShort(period, asymmetry) ==
    LET safePeriod == clampPeriod(period)
        as == clampAsymmetry(asymmetry)
        intervalRR == Mul(safePeriod, as)
        intervalRL == Mul(safePeriod, ONE - Half(as))
        intervalLL == intervalRR
        intervalLR == intervalRL
    IN  [safePeriod |-> safePeriod,
         as |-> as,
         intervalRR |-> intervalRR,
         intervalRL |-> intervalRL,
         intervalLL |-> intervalLL,
         intervalLR |-> intervalLR,
         intervalSwitch |->
             minSwitch(<<intervalLL, intervalRR, intervalLR, intervalRL>>)]

SkipIntervalsSplit(period, asymmetry) ==
    LET safePeriod == clampPeriod(period)
        as == clampAsymmetry(asymmetry)
        intervalRR == Mul(safePeriod, as)
        intervalRL == Mul(safePeriod, ONE - as)
        intervalLL == intervalRR
        intervalLR == intervalRL
    IN  [safePeriod |-> safePeriod,
         as |-> as,
         intervalRR |-> intervalRR,
         intervalRL |-> intervalRL,
         intervalLL |-> intervalLL,
         intervalLR |-> intervalLR,
         intervalSwitch |->
             minSwitch(<<intervalLL, intervalRR, intervalLR, intervalRL>>)]

(* The locals of SkipPattern.build.                                         *)
SkipIntervals(period, asymmetry) ==
    LET safePeriod == clampPeriod(period)
        as == clampAsymmetry(asymmetry)
        intervalRR == Mul(Half(safePeriod), as)
        intervalRL == Mul(safePeriod, ONE - Half(as))
        intervalLL == intervalRR
        intervalLR == intervalRL
    IN  [safePeriod |-> safePeriod,
         as |-> as,
         intervalRR |-> intervalRR,
         intervalRL |-> intervalRL,
         intervalLL |-> intervalLL,
         intervalLR |-> intervalLR,
         intervalSwitch |->
             minSwitch(<<intervalLL, intervalRR, intervalLR, intervalRL>>)]

SkipPattern_build(period, asymmetry) ==
    LET iv == SkipIntervals(period, asymmetry)
        sw == iv.intervalSwitch
        t0 == 0
        t1 == t0 + sw
        t2 == t1 + (iv.intervalLR - sw)
        t3 == t2 + sw
        t4 == t3 + (iv.intervalRR - sw)
        t5 == t4 + sw
        t6 == t5 + (iv.intervalRL - sw)
        t7 == t6 + sw
        t8 == t7 + (iv.intervalLL - sw)
    IN  [name |-> "skip",
         duration |-> t8,
         actions |-> << ToneAction(t0, "L", LEFT_NOTE),
                        SpriteAction(t1, "Lj"),
                        ToneAction(t2, "R", RIGHT_NOTE),
                        SpriteAction(t3, "Rj"),
                        ToneAction(t4, "R", RIGHT_NOTE),
                        SpriteAction(t5, "Rj"),
                        ToneAction(t6, "L", LEFT_NOTE),
                        SpriteAction(t7, "Lj") >>]

GallopIntervalsHalved(period, asymmetry) ==
    LET safePeriod == clampPeriod(period)
        as == clampAsymmetry(asymmetry)
        intervalRL == Mul(safePeriod, Half(as))
        intervalLR == Mul(safePeriod, ONE - Half(as))
    IN  [safePeriod |-> safePeriod,
         as |-> as,
         intervalRL |-> intervalRL,
         intervalLR |-> intervalLR,
         intervalSwitch |-> minSwitch(<<intervalLR, intervalRL>>)]

(* The locals of GallopPattern.build.                                       *)
GallopIntervals(period, asymmetry) ==
    LET safePeriod == clampPeriod(period)
        as == clampAsymmetry(asymmetry)
        intervalRL == Mul(safePeriod, as)
        intervalLR == Mul(safePeriod, ONE - as)
    IN  [safePeriod |-> safePeriod,
         as |-> as,
         intervalRL |-> intervalRL,
         intervalLR |-> intervalLR,
         intervalSwitch |-> minSwitch(<<intervalLR, intervalRL>>)]

GallopPattern_buildRightFirst(period, asymmetry) ==
    LET iv == GallopIntervals(period, asymmetry)
    IN  [name |-> "gallop",
         duration |-> iv.intervalLR + iv.intervalRL,
         actions |-> << ToneAction(0, "R", RIGHT_NOTE),
                        SpriteAction(iv.intervalSwitch, "Rj"),
                        ToneAction(iv.intervalRL, "L", LEFT_NOTE),
                        SpriteAction(iv.intervalRL + iv.intervalSwitch, "Lj") >>]

GallopPattern_build(period, asymmetry) ==
    LET iv == GallopIntervals(period, asymmetry)
    IN  [name |-> "gallop",
         duration |-> iv.intervalLR + iv.intervalRL,
         actions |-> << ToneAction(0, "L", LEFT_NOTE),
                        SpriteAction(iv.intervalSwitch, "Lj"),
                        ToneAction(iv.intervalLR, "R", RIGHT_NOTE),
                        SpriteAction(iv.intervalLR + iv.intervalSwitch, "Rj") >>]

(* PATTERNS[kind].build(period, asymmetry)                                  *)
PATTERNS_build(kind, period, asymmetry) ==
    CASE kind = "walk" -> WalkJogPattern_build(period, asymmetry)
      [] kind = "skip" -> SkipPattern_build(period, asymmetry)
      [] kind = "gallop" -> GallopPattern_build(period, asymmetry)

PATTERNS_intervals(kind, period, asymmetry) ==
    CASE kind = "walk" -> WalkJogIntervals(period, asymmetry)
      [] kind = "skip" -> SkipIntervals(period, asymmetry)
      [] kind = "gallop" -> GallopIntervals(period, asymmetry)

----------------------------------------------------------------------------
(* Generator harness: the arguments are drawn from a grid that reaches     *)
(* below and above both clamps; Build applies the generator.                *)
MaxPeriodSteps == 5
MaxAsymmetrySteps == 11

PeriodInputs == {Num(250)} \cup {Num(500) * i : i \in 0..MaxPeriodSteps}
AsymmetryInputs ==
    {Num(1), Num(999)} \cup {Num(100) * i : i \in -1..MaxAsymmetrySteps}

SchedIdle ==
    /\ running = FALSE
    /\ currentSequence = Null
    /\ pendingSequence = Null
    /\ nextCycleId = Null
    /\ scheduledActionIds = <<>>
    /\ seconds = 0
    /\ nextId = 1
    /\ events = <<>>
    /\ toneLog = <<>>
    /\ spriteLog = <<>>
    /\ stepLog = <<>>
    /\ cycleLog = <<>>
    /\ lastApply = Null
    /\ lastStart = Null
    /\ lastFired = Null
    /\ nApply = 0
    /\ nStop = 0
    /\ nStart = 0

(* useState initial values: 'walk', DEFAULT_PERIOD.toFixed(2), '0.00',       *)
(* false.                                                                   *)
UiIdle ==
    /\ pattern = "walk"
    /\ periodInput = Some(DEFAULT_PERIOD)
    /\ asymmetryInput = Some(0)
    /\ isPlaying = FALSE
    /\ awaiting = <<>>

(* The prototype's numbers: ROUNDS_BEFORE_SWITCH and DEFAULT_PATTERN.        *)
ROUNDS_BEFORE_SWITCH == 3
DEFAULT_PATTERN == [period |-> Num(1000), as |-> 0]

(* The prototype's useState and useRef initial values.                      *)
ProtoIdle ==
    /\ protoIsPlaying = FALSE
    /\ currentPattern = DEFAULT_PATTERN
    /\ queuedPattern = Null
    /\ currentPatternRef = DEFAULT_PATTERN
    /\ queuedPatternRef = Null
    /\ nextFootRef = "L"
    /\ roundsUntilSwitchRef = 0
    /\ loopRef = Null
    /\ starting = <<>>
    /\ lastScheduled = Null
    /\ lastQueue = Null
    /\ nLoop = 0
    /\ nQueue = 0
    /\ nToggle = 0

GenInit ==
    /\ SchedIdle
    /\ UiIdle
    /\ ProtoIdle
    /\ g_kind \in PatternKind
    /\ g_period \in PeriodInputs
    /\ g_asymmetry \in AsymmetryInputs
    /\ g_seq = Null
    /\ g_iv = Null
    /\ g_other = Null

Build ==
    /\ g_seq = Null
    /\ g_seq' = Some(PATTERNS_build(g_kind, g_period, g_asymmetry))
    /\ g_iv' = Some(PATTERNS_intervals(g_kind, g_period, g_asymmetry))
    /\ UNCHANGED <<g_kind, g_period, g_asymmetry, g_other>>
    /\ UNCHANGED <<svars, uvars, pvars>>

(* A second call, of the same generator or of WalkJogPattern: with the      *)
(* period clamped by the caller, or with another asymmetry.                 *)
BuildOther ==
    /\ g_seq # Null
    /\ g_other = Null
    /\ \E k \in {g_kind, "walk"}, p \in {g_period, PERIOD_MIN, PERIOD_MAX},
          a \in AsymmetryInputs :
          g_other' = Some([kind |-> k, period |-> p, asymmetry |-> a,
                           seq |-> PATTERNS_build(k, p, a)])
    /\ UNCHANGED <<g_kind, g_period, g_asymmetry, g_seq, g_iv>>
    /\ UNCHANGED <<svars, uvars, pvars>>

GenNext == Build \/ BuildOther

SpecGen == GenInit /\ [][GenNext]_vars

----------------------------------------------------------------------------
(* The scheduler and its transport.  A handler runs to completion, so each  *)
(* operation is a function from the state before it to the state after it;  *)
(* st is the record of the scheduler's fields, the transport and the logs.  *)

Cur ==
    [running |-> running, currentSequence |-> currentSequence,
     pendingSequence |-> pendingSequence, nextCycleId |-> nextCycleId,
     scheduledActionIds |-> scheduledActionIds,
     seconds |-> seconds, nextId |-> nextId, events |-> events,
     toneLog |-> toneLog, spriteLog |-> spriteLog, stepLog |-> stepLog,
     cycleLog |-> cycleLog]

Commit(st) ==
    /\ running' = st.running
    /\ currentSequence' = st.currentSequence
    /\ pendingSequence' = st.pendingSequence
    /\ nextCycleId' = st.nextCycleId
    /\ scheduledActionIds' = st.scheduledActionIds
    /\ seconds' = st.seconds
    /\ nextId' = st.nextId
    /\ events' = st.events
    /\ toneLog' = st.toneLog
    /\ spriteLog' = st.spriteLog
    /\ stepLog' = st.stepLog
    /\ cycleLog' = st.cycleLog

(* Callbacks handed to the transport: the closures of scheduleActions and   *)
(* scheduleCycle, with the values they capture.                             *)
ActionCb(action) == [kind |-> "action", action |-> action]
PlanCb(nextCycleStart) == [kind |-> "plan", nextCycleStart |-> nextCycleStart]

(* FakeTransport.schedule / scheduleOnce: the id returned is st.nextId.     *)
Transport_schedule(st, cb, time) ==
    [st EXCEPT !.events = Append(@, [id |-> st.nextId, time |-> time, cb |-> cb]),
               !.nextId = @ + 1]

Transport_clear(st, id) ==
    [st EXCEPT !.events = SelectSeq(@, LAMBDA evt : evt.id # id)]

Transport_cancel(st) == [st EXCEPT !.events = <<>>]

RECURSIVE clearAll(_, _)
clearAll(st, ids) ==
    IF ids = <<>> THEN st ELSE clearAll(Transport_clear(st, Head(ids)), Tail(ids))

clearScheduledActions(st) ==
    [clearAll(st, st.scheduledActionIds) EXCEPT !.scheduledActionIds = <<>>]

resetTransportKeepsCycleId(st) ==
    LET s1 == IF st.nextCycleId # Null
                THEN Transport_clear(st, st.nextCycleId[1])
                ELSE st
        s2 == clearScheduledActions(s1)
        s3 == Transport_cancel(s2)
    IN  [s3 EXCEPT !.seconds = 0]

resetTransportKeepsEvents(st) ==
    [(IF st.nextCycleId # Null
        THEN [Transport_clear(st, st.nextCycleId[1]) EXCEPT !.nextCycleId = Null]
        ELSE st)
       EXCEPT !.seconds = 0]

(* Transport.stop() and position = 0 put the transport clock back to 0.     *)
resetTransport(st) ==
    LET s1 == IF st.nextCycleId # Null
                THEN [Transport_clear(st, st.nextCycleId[1]) EXCEPT !.nextCycleId = Null]
                ELSE st
        s2 == clearScheduledActions(s1)
        s3 == Transport_cancel(s2)
    IN  [s3 EXCEPT !.seconds = 0]

RECURSIVE scheduleActionsFrom(_, _, _, _)
scheduleActionsFrom(st, sequence, cycleStart, k) ==
    IF k > Len(sequence.actions) THEN st
    ELSE LET action == sequence.actions[k]
             eventId == st.nextId
             s1 == Transport_schedule(st, ActionCb(action), cycleStart + action.offset)
             s2 == [s1 EXCEPT !.scheduledActionIds = Append(@, eventId)]
         IN  scheduleActionsFrom(s2, sequence, cycleStart, k + 1)

scheduleActionsBehind(st, sequence, cycleStart) ==
    scheduleActionsFrom(st, sequence, cycleStart - sequence.duration, 1)

scheduleActionsFromNow(st, sequence, cycleStart) ==
    scheduleActionsFrom(st, sequence, st.seconds, 1)

scheduleActions(st, sequence, cycleStart) ==
    scheduleActionsFrom(st, sequence, cycleStart, 1)

scheduleCycleNoSwap(st, cycleStartTime) ==
    IF ~st.running \/ st.currentSequence = Null THEN st
    ELSE
        LET sequence == st.currentSequence[1]
            s2 == scheduleActions(st, sequence, cycleStartTime)
            nextCycleStart == cycleStartTime + sequence.duration
            scheduleNextPlanningAt == Max2(0, nextCycleStart - SCHEDULER_LOOKAHEAD)
            s3 == Transport_schedule(s2, PlanCb(nextCycleStart), scheduleNextPlanningAt)
        IN  [s3 EXCEPT !.nextCycleId = Some(s2.nextId),
                       !.cycleLog = Append(@, [start |-> cycleStartTime,
                                               sequence |-> sequence,
                                               plannedAt |-> st.seconds])]

scheduleCycleAtPlanningTime(st, cycleStartTime) ==
    IF ~st.running THEN st
    ELSE scheduleCycleNoSwap(IF st.pendingSequence # Null
                               THEN [st EXCEPT !.currentSequence = st.pendingSequence,
                                               !.pendingSequence = Null]
                               ELSE st,
                             st.seconds)

scheduleCycleClearsOnSwap(st, cycleStartTime) ==
    IF st.running /\ st.pendingSequence # Null
      THEN scheduleCycleNoSwap([clearScheduledActions(st)
                                  EXCEPT !.currentSequence = st.pendingSequence,
                                         !.pendingSequence = Null],
                               cycleStartTime)
      ELSE scheduleCycleNoSwap(st, cycleStartTime)

scheduleCycleFromWakeUp(st, cycleStartTime) ==
    IF ~st.running THEN st
    ELSE
    LET s1 == IF st.pendingSequence # Null
                THEN [st EXCEPT !.currentSequence = st.pendingSequence,
                                !.pendingSequence = Null]
                ELSE st
    IN  IF s1.currentSequence = Null THEN s1
        ELSE
        LET sequence == s1.currentSequence[1]
            s2 == scheduleActions(s1, sequence, cycleStartTime)
            nextCycleStart == cycleStartTime + sequence.duration
            scheduleNextPlanningAt == Max2(0, nextCycleStart - SCHEDULER_LOOKAHEAD)
            s3 == Transport_schedule(s2, PlanCb(scheduleNextPlanningAt), scheduleNextPlanningAt)
        IN  [s3 EXCEPT !.nextCycleId = Some(s2.nextId),
                       !.cycleLog = Append(@, [start |-> cycleStartTime,
                                               sequence |-> sequence,
                                               plannedAt |-> st.seconds])]

scheduleCycleOneShot(st, cycleStartTime) ==
    IF cycleStartTime > 0 THEN [st EXCEPT !.running = FALSE]
    ELSE scheduleCycleNoSwap(st, cycleStartTime)

scheduleCycleAtBoundary(st, cycleStartTime) ==
    IF ~st.running THEN st
    ELSE
    LET s1 == IF st.pendingSequence # Null
                THEN [st EXCEPT !.currentSequence = st.pendingSequence,
                                !.pendingSequence = Null]
                ELSE st
    IN  IF s1.currentSequence = Null THEN s1
        ELSE
        LET sequence == s1.currentSequence[1]
            s2 == scheduleActions(s1, sequence, cycleStartTime)
            nextCycleStart == cycleStartTime + sequence.duration
            s3 == Transport_schedule(s2, PlanCb(nextCycleStart), nextCycleStart)
        IN  [s3 EXCEPT !.nextCycleId = Some(s2.nextId),
                       !.cycleLog = Append(@, [start |-> cycleStartTime,
                                               sequence |-> sequence,
                                               plannedAt |-> st.seconds])]

scheduleCycle(st, cycleStartTime) ==
    IF ~st.running THEN st
    ELSE
    \* 1. swap pattern if pending
    LET s1 == IF st.pendingSequence # Null
                THEN [st EXCEPT !.currentSequence = st.pendingSequence,
                                !.pendingSequence = Null]
                ELSE st
    IN  IF s1.currentSequence = Null THEN s1
        ELSE
        LET sequence == s1.currentSequence[1]
            \* 2. schedule this cycle's events relative to the passed start time
            s2 == scheduleActions(s1, sequence, cycleStartTime)
            \* 3. when the next cycle starts
            nextCycleStart == cycleStartTime + sequence.duration
            \* 4. wake up LOOKAHEAD seconds before it
            scheduleNextPlanningAt == Max2(0, nextCycleStart - SCHEDULER_LOOKAHEAD)
            s3 == Transport_schedule(s2, PlanCb(nextCycleStart), scheduleNextPlanningAt)
        IN  [s3 EXCEPT !.nextCycleId = Some(s2.nextId),
                       !.cycleLog = Append(@, [start |-> cycleStartTime,
                                               sequence |-> sequence,
                                               plannedAt |-> st.seconds])]

startFreshNoReset(st, sequence) ==
    scheduleCycle([st EXCEPT !.currentSequence = Some(sequence),
                             !.running = TRUE,
                             !.pendingSequence = Null], 0)

startFresh(st, sequence) ==
    LET s1 == resetTransport(st)
        s2 == [s1 EXCEPT !.currentSequence = Some(sequence),
                         !.running = TRUE,
                         !.pendingSequence = Null]
    IN  scheduleCycle(s2, 0)

applySequenceRestarts(st, sequence) == startFresh(st, sequence)

applySequenceQueuesAlways(st, sequence) == [st EXCEPT !.pendingSequence = Some(sequence)]

applySequenceSwapsNow(st, sequence) ==
    IF ~st.running THEN startFresh(st, sequence)
    ELSE [st EXCEPT !.currentSequence = Some(sequence)]

applySequenceClearsActions(st, sequence) ==
    IF ~st.running THEN startFresh(st, sequence)
    ELSE [clearScheduledActions(st) EXCEPT !.pendingSequence = Some(sequence)]

applySequenceKeepsFirst(st, sequence) ==
    IF ~st.running THEN startFresh(st, sequence)
    ELSE IF st.pendingSequence # Null THEN st
    ELSE [st EXCEPT !.pendingSequence = Some(sequence)]

applySequence(st, sequence) ==
    IF ~st.running THEN startFresh(st, sequence)
    ELSE [st EXCEPT !.pendingSequence = Some(sequence)]

stopKeepsPending(st) ==
    [resetTransport(st) EXCEPT !.running = FALSE,
                               !.currentSequence = Null]

stopKeepsCurrent(st) ==
    [resetTransport(st) EXCEPT !.running = FALSE,
                               !.pendingSequence = Null]

stop(st) ==
    [resetTransport(st) EXCEPT !.running = FALSE,
                               !.pendingSequence = Null,
                               !.currentSequence = Null]

(* dispose(): stop(), then the two synths are released.                     *)
dispose(st) == stop(st)

(* executeAction(action, scheduledTime); Tone.Draw.schedule runs its        *)
(* callback for the time it is given.                                       *)
executeAction(st, action, scheduledTime) ==
    IF action.type = "tone"
      THEN [st EXCEPT
              !.toneLog = Append(@, [synth |-> IF action.foot = "L" THEN "left" ELSE "right",
                                     note |-> action.note,
                                     time |-> scheduledTime,
                                     wallTime |-> st.seconds]),
              !.stepLog = Append(@, [pattern |-> IF st.currentSequence = Null THEN Null
                                                 ELSE Some(st.currentSequence[1].name),
                                     foot |-> action.foot,
                                     at |-> scheduledTime]),
              !.spriteLog = Append(@, [sprite |-> action.foot, time |-> scheduledTime])]
      ELSE [st EXCEPT
              !.spriteLog = Append(@, [sprite |-> action.sprite, time |-> scheduledTime])]

(* FakeTransport.advanceTo: the events at or before the target in time      *)
(* order, ties in registration order.                                       *)
IsNextEvent(evs, k) ==
    /\ \A j \in 1..Len(evs) : evs[k].time <= evs[j].time
    /\ \A j \in 1..(k - 1) : evs[j].time # evs[k].time

(* One iteration of advanceTo's loop: the event evs[k] is taken off the     *)
(* transport, the clock is set to its time and its callback runs.           *)
fire(st, k) ==
    LET evt == st.events[k]
        s1 == [st EXCEPT !.seconds = evt.time,
                         !.events = SelectSeq(@, LAMBDA e : e.id # evt.id)]
    IN  IF evt.cb.kind = "action"
          THEN executeAction(s1, evt.cb.action, evt.time)
          ELSE scheduleCycle(s1, evt.cb.nextCycleStart)

----------------------------------------------------------------------------
(* The scheduler driven by its callers and by the transport.                *)
Horizon == 6            \* half seconds of transport time played after a (re)start
MaxOps == 3             \* applySequence and stop calls
MaxIdleSteps == 10      \* clock values at which the transport may rest between events

MaxTime == Num(500) * Horizon

(* The sequences the callers hand over: built by the generators.            *)
SchedInputs ==
    { <<"walk", Num(1000), 0>>,
      <<"skip", Num(1000), Num(600)>>,
      <<"gallop", Num(1000), Num(600)>>,
      <<"gallop", Num(500), Num(600)>>,
      <<"gallop", Num(1000), Num(50)>> }
SchedSequences == {PATTERNS_build(in[1], in[2], in[3]) : in \in SchedInputs}

(* The sequences start is called with while playing.                        *)
StartSequences ==
    {PATTERNS_build("walk", Num(1000), 0), PATTERNS_build("skip", Num(1000), Num(600))}

IdleTargets == {Num(300) * j : j \in 1..MaxIdleSteps}

GenIdle ==
    /\ g_kind = "walk"
    /\ g_period = DEFAULT_PERIOD
    /\ g_asymmetry = 0
    /\ g_seq = Null
    /\ g_iv = Null
    /\ g_other = Null

Init == GenIdle /\ SchedIdle /\ UiIdle /\ ProtoIdle

(* The logs hold what was delivered since playback last started.            *)
NewEpoch(st) ==
    [st EXCEPT !.toneLog = <<>>, !.spriteLog = <<>>, !.stepLog = <<>>, !.cycleLog = <<>>]

(* The cycle in progress at the clock value t: the last one begun by then.  *)
CycleAt(log, t) ==
    IF \E i \in 1..Len(log) : log[i].start <= t
      THEN CHOOSE i \in 1..Len(log) :
              /\ log[i].start <= t
              /\ \A j \in 1..Len(log) : log[j].start <= t => j <= i
      ELSE 0

(* A call of scheduler.applySequence(sequence), by whoever holds the        *)
(* scheduler.                                                               *)
CallApplySequence(sequence) ==
    /\ nApply + nStop + nStart < MaxOps
    /\ Commit(applySequence(IF running THEN Cur ELSE NewEpoch(Cur), sequence))
    /\ lastApply' = IF running
                      THEN Some([inCycle |-> CycleAt(cycleLog, seconds),
                                 planned |-> Len(cycleLog),
                                 sequence |-> sequence])
                      ELSE Null
    /\ lastStart' = Null
    /\ lastFired' = IF running THEN lastFired ELSE Null
    /\ nApply' = nApply + 1
    /\ UNCHANGED <<nStop, nStart>>

ApplySequence(sequence) ==
    /\ CallApplySequence(sequence)
    /\ UNCHANGED <<gvars, uvars, pvars>>

(* A call of scheduler.stop().                                              *)
CallStop ==
    /\ nApply + nStop + nStart < MaxOps
    /\ Commit(stop(Cur))
    /\ lastApply' = Null
    /\ lastStart' = Null
    /\ lastFired' = Null
    /\ nStop' = nStop + 1
    /\ UNCHANGED <<nApply, nStart>>

Stop ==
    /\ CallStop
    /\ UNCHANGED <<gvars, uvars, pvars>>

(* start(sequence): the scheduler's start-fresh entry called while it is    *)
(* running (on a stopped scheduler it is the call ApplySequence makes).     *)
(* calls counts the calls made one after the other with the same sequence,  *)
(* the transport not having moved between.                                  *)
Start(sequence) ==
    /\ running
    /\ nApply + nStop + nStart < MaxOps
    /\ Commit(startFresh(NewEpoch(Cur), sequence))
    /\ lastApply' = Null
    /\ lastStart' = Some([sequence |-> sequence,
                          calls |-> IF /\ lastStart # Null
                                       /\ lastStart[1].sequence = sequence
                                       /\ seconds = 0
                                       /\ toneLog = <<>>
                                       /\ Len(cycleLog) = 1
                                      THEN lastStart[1].calls + 1
                                      ELSE 1])
    /\ lastFired' = Null
    /\ nStart' = nStart + 1
    /\ UNCHANGED <<nApply, nStop, gvars, uvars, pvars>>

(* The component that owns the scheduler is unmounted.                      *)
Dispose ==
    /\ nApply + nStop + nStart < MaxOps
    /\ Commit(dispose(Cur))
    /\ lastApply' = Null
    /\ lastStart' = Null
    /\ lastFired' = Null
    /\ nStop' = nStop + 1
    /\ UNCHANGED <<nApply, nStart, gvars, uvars, pvars>>

(* The transport reaches its next event.                                    *)
FireNext ==
    /\ \E k \in 1..Len(events) :
          /\ IsNextEvent(events, k)
          /\ events[k].time <= MaxTime
          /\ Commit(fire(Cur, k))
          /\ lastFired' = Some(events[k].id)
    /\ UNCHANGED <<lastApply, lastStart, nApply, nStop, nStart, gvars, uvars, pvars>>

(* The transport clock passes to a time before its next event.              *)
Idle ==
    /\ running
    /\ \E target \in IdleTargets :
          /\ target > seconds
          /\ target <= MaxTime
          /\ \A k \in 1..Len(events) : events[k].time > target
          /\ seconds' = target
    /\ UNCHANGED <<running, currentSequence, pendingSequence, nextCycleId,
                   scheduledActionIds, nextId, events, toneLog, spriteLog, stepLog,
                   cycleLog, lastApply, lastStart, lastFired, nApply, nStop, nStart, gvars, uvars, pvars>>

Next ==
    \/ \E sequence \in SchedSequences : ApplySequence(sequence)
    \/ \E sequence \in StartSequences : Start(sequence)
    \/ Stop
    \/ Dispose
    \/ FireNext
    \/ Idle

Spec == Init /\ [][Next]_vars

----------------------------------------------------------------------------
(* Vocabulary of the properties.                                            *)
ToSet(s) == {s[i] : i \in 1..Len(s)}

ToneActions(sequence) == {a \in ToSet(sequence.actions) : a.type = "tone"}

(* The tones of one cycle of a sequence begun at start, as the synths       *)
(* receive them: at the scheduled time, which is also the clock value.      *)
CycleTones(start, sequence) ==
    { [synth |-> IF a.foot = "L" THEN "left" ELSE "right",
       note |-> a.note,
       time |-> start + a.offset,
       wallTime |-> start + a.offset] : a \in ToneActions(sequence) }

(* The times of the tone callbacks still outstanding in the transport.      *)
OutstandingToneTimes ==
    { e.time : e \in {x \in ToSet(events) : x.cb.kind = "action" /\ x.cb.action.type = "tone"} }

ToneTimesAre(times) ==
    \A n \in 1..Min2(Len(times), Len(toneLog)) : toneLog[n].time = times[n]

StrictlyTimed(log) == \A n \in 1..(Len(log) - 1) : log[n].time < log[n + 1].time

CycleEnd(c) == cycleLog[c].start + cycleLog[c].sequence.duration

Walk1 == WalkJogPattern_build(Num(1000), 0)
Skip1 == SkipPattern_build(Num(1000), Num(600))
Gallop1 == GallopPattern_build(Num(1000), Num(600))

(* The tones the log must hold when the cycles from index c on were, up to  *)
(* the cycle ending at boundary, the ones materialized, and from boundary   *)
(* on cycles of sequence B.                                                 *)
SwapTones(c, last, boundary, B) ==
    LET Old == UNION { CycleTones(cycleLog[i].start, cycleLog[i].sequence) : i \in c..last }
        New == UNION { CycleTones(boundary + j * B.duration, B) :
                          j \in 0..(MaxTime \div B.duration) }
    IN  /\ \A n \in 1..Len(toneLog) :
              LET e == toneLog[n]
              IN  /\ (e.time >= cycleLog[c].start /\ e.time < boundary) => e \in Old
                  /\ e.time >= boundary => e \in New
        /\ \A x \in Old \cup New :
              (x.time >= cycleLog[c].start /\ x.time < seconds) => x \in ToSet(toneLog)

(* C1 as stated: applySequence(B) called while a cycle of A plays: the      *)
(* tones before the end of that cycle are A's, the tones from the end of    *)
(* that cycle on are B's at cycle end + offset.                             *)
C1_SwapAtEndOfCurrentCycle ==
    (lastApply # Null /\ lastApply[1].inCycle >= 1) =>
        LET c == lastApply[1].inCycle
        IN  SwapTones(c, c, CycleEnd(c), lastApply[1].sequence)

(* C1 amended: the tones scheduled before the end of the last cycle         *)
(* planned when applySequence(B) was called are the ones materialized for   *)
(* A; the tones from that boundary on are B's at boundary + offset.  The    *)
(* boundary is the end of the cycle in progress when the call precedes the  *)
(* planning callback (run 0.1 s before the end), else one cycle later.      *)
(* Skip(1.0, 0.6) with Walk(1.0) queued in its first cycle: tones at 0,     *)
(* 0.7, 1.0, 1.7, then 2.0, 2.5.                                            *)
C1_DeferredSwap ==
    (lastApply # Null /\ lastApply[1].inCycle >= 1) =>
        LET la == lastApply[1]
            c == la.inCycle
        IN  /\ la.planned \in {c, c + 1}
            /\ SwapTones(c, la.planned, CycleEnd(la.planned), la.sequence)
            /\ (la.planned = c /\ c = 1 /\ cycleLog[1].sequence = Skip1
                    /\ la.sequence = Walk1)
                  => ToneTimesAre(<<0, Num(700), Num(1000), Num(1700), Num(2000), Num(2500)>>)

C1_Witness ==
    /\ lastApply # Null
    /\ lastApply[1].inCycle = 1
    /\ lastApply[1].planned = 1
    /\ cycleLog[1].sequence = Skip1
    /\ lastApply[1].sequence = Walk1
    /\ Len(toneLog) = 6
    /\ toneLog[6].time = Num(2500)

(* C2 as stated: the cycle beginning at the first boundary reached after    *)
(* the call (the end of the cycle in progress at the call) plays s.         *)
C2_PromotedAtNextBoundary ==
    (lastApply # Null /\ lastApply[1].inCycle >= 1) =>
        \A i \in 1..Len(cycleLog) :
            cycleLog[i].start = CycleEnd(lastApply[1].inCycle)
                => cycleLog[i].sequence = lastApply[1].sequence

(* C2 amended: s stays pending until the first planning callback after the  *)
(* call and becomes currentSequence there, once: every cycle materialized   *)
(* after the call plays s, the first of them begins where the last cycle    *)
(* planned before the call ends, and it was planned SCHEDULER_LOOKAHEAD     *)
(* before that boundary.                                                    *)
C2_PromotedAtNextPlanning ==
    lastApply # Null =>
        LET la == lastApply[1]
            p == la.planned
        IN  /\ p >= 1
            /\ Len(cycleLog) = p =>
                  /\ pendingSequence = Some(la.sequence)
                  /\ currentSequence = Some(cycleLog[p].sequence)
            /\ Len(cycleLog) > p =>
                  /\ pendingSequence = Null
                  /\ currentSequence = Some(la.sequence)
                  /\ \A i \in (p + 1)..Len(cycleLog) : cycleLog[i].sequence = la.sequence
                  /\ cycleLog[p + 1].start = CycleEnd(p)
                  /\ cycleLog[p + 1].plannedAt = Max2(0, CycleEnd(p) - SCHEDULER_LOOKAHEAD)

C2_Witness ==
    /\ lastApply # Null
    /\ lastApply[1].planned = lastApply[1].inCycle + 1
    /\ Len(cycleLog) > lastApply[1].planned
    /\ cycleLog[lastApply[1].planned].sequence # lastApply[1].sequence

(* C3: a stopped scheduler has no callback outstanding in the transport,    *)
(* and after a restart every callback outstanding or fired is one           *)
(* materialized for a cycle of the new playback: the callbacks delivered    *)
(* and the callbacks outstanding add up to the actions of those cycles,     *)
(* plus the one planning callback.                                          *)
C3_StopCancelsAll ==
    /\ ~running => (events = <<>> /\ nextCycleId = Null /\ scheduledActionIds = <<>>)
    /\ running =>
          LET Materialized(i) ==
                  { [time |-> cycleLog[i].start + a.offset, action |-> a] :
                        a \in ToSet(cycleLog[i].sequence.actions) }
              All == UNION { Materialized(i) : i \in 1..Len(cycleLog) }
              Plans == {e \in ToSet(events) : e.cb.kind = "plan"}
              Acts == {e \in ToSet(events) : e.cb.kind = "action"}
          IN  /\ \A e \in Acts : [time |-> e.time, action |-> e.cb.action] \in All
              /\ \A e \in Plans : nextCycleId = Some(e.id)
                                    /\ e.cb.nextCycleStart = CycleEnd(Len(cycleLog))
              /\ Cardinality(Plans) = 1
              /\ Cardinality(Acts) + Len(spriteLog) = Cardinality(All)
              /\ \A n \in 1..Len(toneLog) :
                    \E i \in 1..Len(cycleLog) :
                        toneLog[n] \in CycleTones(cycleLog[i].start, cycleLog[i].sequence)

C3_Witness ==
    /\ running
    /\ nStop = 1
    /\ nApply = 2
    /\ lastApply = Null
    /\ nextId > 2 * Len(currentSequence[1].actions) + 2
    /\ Len(toneLog) >= 2

(* C4: a sequence S started and neither swapped nor stopped: the tones      *)
(* fired are, for every cycle k >= 0 and every tone action of S, one tone   *)
(* at k * S.duration + offset with the action's foot and note, in time      *)
(* order, and nothing else.  Walk/Jog with period 1.0: 0, 0.5, 1.0, 1.5,    *)
(* 2.0 with C5 (left), E5 (right) alternating.                              *)
C4_SteadyTones ==
    (running /\ lastApply = Null /\ currentSequence # Null) =>
        LET S == currentSequence[1]
            All == UNION { CycleTones(k * S.duration, S) : k \in 0..(MaxTime \div S.duration) }
            Due == {x \in All : x.time <= seconds /\ x.time \notin OutstandingToneTimes}
        IN  /\ ToSet(toneLog) = Due
            /\ StrictlyTimed(toneLog)
            /\ S = Walk1 =>
                  \A n \in 1..Min2(5, Len(toneLog)) :
                      toneLog[n] = [synth |-> IF n % 2 = 1 THEN "left" ELSE "right",
                                    note |-> IF n % 2 = 1 THEN "C5" ELSE "E5",
                                    time |-> Num(500) * (n - 1),
                                    wallTime |-> Num(500) * (n - 1)]

C4_Witness ==
    /\ running
    /\ lastApply = Null
    /\ currentSequence = Some(Walk1)
    /\ Len(toneLog) = 5
    /\ toneLog[5].time = Num(2000)

(* C5: Gallop(period 1.0, asymmetry 0.6) played from a stopped scheduler    *)
(* fires its first tones at 0.0 (left, C5) and 0.7 (right, E5), and the     *)
(* next cycle's at 1.0 and 1.7.                                             *)
C5_GallopTones ==
    (running /\ lastApply = Null /\ currentSequence = Some(Gallop1)) =>
        /\ ToneTimesAre(<<0, Num(700), Num(1000), Num(1700)>>)
        /\ \A n \in 1..Min2(4, Len(toneLog)) :
              /\ toneLog[n].note = (IF n % 2 = 1 THEN "C5" ELSE "E5")
              /\ toneLog[n].synth = (IF n % 2 = 1 THEN "left" ELSE "right")

----------------------------------------------------------------------------
(* Properties of the generators (SpecGen).                                  *)
Offsets(sequence) == [k \in 1..Len(sequence.actions) |-> sequence.actions[k].offset]

(* The foot-to-foot intervals among the locals of a build.                  *)
FootIntervals(iv) ==
    { iv[f] : f \in (DOMAIN iv) \cap {"intervalLR", "intervalRL", "intervalLL", "intervalRR"} }

SetMin(S) == CHOOSE m \in S : \A x \in S : m <= x

(* C6: for every period and asymmetry, in range or not, and each of the     *)
(* three generators, the built sequence has duration > 0 and its offsets    *)
(* are non-negative, below the duration and non-decreasing in list order.   *)
C6_OffsetsOrdered ==
    g_seq # Null =>
        LET sequence == g_seq[1]
            off == Offsets(sequence)
        IN  /\ sequence.duration > 0
            /\ \A k \in 1..Len(off) : off[k] >= 0 /\ off[k] < sequence.duration
            /\ \A k \in 1..(Len(off) - 1) : off[k] <= off[k + 1]

C6_Witness ==
    /\ g_seq # Null
    /\ g_kind = "skip"
    /\ g_period > PERIOD_MAX
    /\ g_asymmetry > ONE

(* C7: WalkJogPattern.build(period, a1) and build(period, a2) return the    *)
(* same sequence for every period and every a1, a2.                         *)
C7_WalkIgnoresAsymmetry ==
    (g_kind = "walk" /\ g_other # Null /\ g_other[1].period = g_period) =>
        g_other[1].seq = g_seq[1]

C7_Witness ==
    /\ g_kind = "walk"
    /\ g_other # Null
    /\ g_other[1].period = g_period
    /\ g_asymmetry = Num(100)
    /\ g_other[1].asymmetry = Num(900)

(* C8: every generator clamps the period into [0.5, 2.0] before use: a      *)
(* period below 0.5 builds the sequence of 0.5, a period above 2.0 the      *)
(* sequence of 2.0, and the period the offsets and the duration derive      *)
(* from (safePeriod) is never out of range.                                 *)
C8_PeriodClamped ==
    /\ g_iv # Null =>
          /\ g_iv[1].safePeriod >= PERIOD_MIN
          /\ g_iv[1].safePeriod <= PERIOD_MAX
          /\ (g_period >= PERIOD_MIN /\ g_period <= PERIOD_MAX) => g_iv[1].safePeriod = g_period
    /\ (g_other # Null /\ g_other[1].kind = g_kind /\ g_other[1].asymmetry = g_asymmetry) =>
          /\ (g_period <= PERIOD_MIN /\ g_other[1].period = PERIOD_MIN)
                => g_other[1].seq = g_seq[1]
          /\ (g_period >= PERIOD_MAX /\ g_other[1].period = PERIOD_MAX)
                => g_other[1].seq = g_seq[1]

C8_Witness ==
    /\ g_kind = "skip"
    /\ g_period = Num(250)
    /\ g_other # Null
    /\ g_other[1].kind = g_kind
    /\ g_other[1].period = PERIOD_MIN
    /\ g_other[1].asymmetry = g_asymmetry

(* C9: Skip and Gallop clamp the asymmetry into [0.001, 0.999] before use,  *)
(* and for every input, asymmetry <= 0 and >= 1 included, every             *)
(* foot-to-foot interval and the transition length are strictly positive.   *)
C9_IntervalsPositive ==
    (g_iv # Null /\ g_kind \in {"skip", "gallop"}) =>
        LET iv == g_iv[1]
        IN  /\ iv.as = (IF g_asymmetry < Num(1) THEN Num(1)
                         ELSE IF g_asymmetry > Num(999) THEN Num(999)
                         ELSE g_asymmetry)
            /\ \A i \in FootIntervals(iv) : i > 0
            /\ Cardinality(DOMAIN iv \cap {"intervalLR", "intervalRL", "intervalLL", "intervalRR"})
                  = (IF g_kind = "skip" THEN 4 ELSE 2)
            /\ iv.intervalSwitch > 0

C9_Witness ==
    /\ g_iv # Null
    /\ g_kind = "gallop"
    /\ g_asymmetry >= ONE

(* C10: the transition length is min(0.1, smallest foot interval / 3), so   *)
(* it is strictly smaller than every interval of the cycle, and each        *)
(* sprite action lies strictly after the tone that opens its interval and   *)
(* strictly before the next tone (or the cycle end).                        *)
C10_TransitionInsideInterval ==
    g_seq # Null =>
        LET iv == g_iv[1]
            sequence == g_seq[1]
            n == Len(sequence.actions)
        IN  /\ iv.intervalSwitch = Min2(Num(100), Third(SetMin(FootIntervals(iv))))
            /\ \A i \in FootIntervals(iv) : iv.intervalSwitch < i
            /\ \A k \in 1..n :
                  sequence.actions[k].type = "sprite" =>
                      /\ k > 1
                      /\ sequence.actions[k - 1].type = "tone"
                      /\ sequence.actions[k - 1].offset < sequence.actions[k].offset
                      /\ IF k < n
                            THEN /\ sequence.actions[k + 1].type = "tone"
                                 /\ sequence.actions[k].offset < sequence.actions[k + 1].offset
                            ELSE sequence.actions[k].offset < sequence.duration

C10_Witness ==
    /\ g_seq # Null
    /\ g_kind = "skip"
    /\ g_iv[1].intervalSwitch < INTERVAL_SWITCH_CAP
    /\ g_iv[1].intervalRR < g_iv[1].intervalRL

IsTone(action) == action.type = "tone"
TonesOf(sequence) == SelectSeq(sequence.actions, IsTone)

(* The gaps between consecutive tones of a cycle, the last one reaching     *)
(* the first tone of the next cycle.                                        *)
ToneGaps(sequence) ==
    LET tones == TonesOf(sequence)
        n == Len(tones)
    IN  [j \in 1..n |-> IF j < n THEN tones[j + 1].offset - tones[j].offset
                                 ELSE sequence.duration + tones[1].offset - tones[n].offset]

Feet(sequence) == [j \in 1..Len(TonesOf(sequence)) |-> TonesOf(sequence)[j].foot]

C26_SkipShape ==
    (g_seq # Null /\ g_kind = "skip") =>
        LET sequence == g_seq[1]
            P == clampPeriod(g_period)
            a == clampAsymmetry(g_asymmetry)
            short == Half(Mul(P, a))
            long == P - short
        IN  /\ Feet(sequence) = <<"L", "R", "R", "L">>
            /\ ToneGaps(sequence) = <<long, short, long, short>>
            /\ short < long

C26_Witness ==
    /\ g_seq # Null
    /\ g_kind = "skip"
    /\ g_period = Num(1000)
    /\ g_asymmetry = Num(600)
    /\ ToneGaps(g_seq[1]) = <<Num(700), Num(300), Num(700), Num(300)>>

(* The foot-to-foot intervals of a build in the order the cycle runs        *)
(* through them.                                                            *)
IntervalsInOrder(kind, iv) ==
    IF kind = "skip"
        THEN <<iv.intervalLR, iv.intervalRR, iv.intervalRL, iv.intervalLL>>
        ELSE <<iv.intervalLR, iv.intervalRL>>

RECURSIVE SumTo(_, _)
SumTo(s, n) == IF n = 0 THEN 0 ELSE s[n] + SumTo(s, n - 1)

(* C27: each generator emits, for each of its intervals (2 for Walk/Jog and *)
(* Gallop, 4 for Skip), exactly one tone at the start of the interval       *)
(* followed by exactly one sprite at start + transition length, showing the *)
(* transition sprite of that tone's foot (Lj after L, Rj after R); the      *)
(* duration is the sum of the intervals.                                    *)
C27_ToneThenSprite ==
    g_seq # Null =>
        LET sequence == g_seq[1]
            iv == g_iv[1]
            ints == IntervalsInOrder(g_kind, iv)
            n == Len(ints)
        IN  /\ n = (IF g_kind = "skip" THEN 4 ELSE 2)
            /\ Len(sequence.actions) = 2 * n
            /\ \A j \in 1..n :
                  LET tone == sequence.actions[2 * j - 1]
                      sprite == sequence.actions[2 * j]
                      start == SumTo(ints, j - 1)
                  IN  /\ tone.type = "tone"
                      /\ tone.offset = start
                      /\ sprite.type = "sprite"
                      /\ sprite.offset = start + iv.intervalSwitch
                      /\ sprite.sprite = (IF tone.foot = "L" THEN "Lj" ELSE "Rj")
            /\ sequence.duration = SumTo(ints, n)

C27_Witness ==
    /\ g_seq # Null
    /\ g_kind = "skip"
    /\ g_asymmetry = Num(200)
    /\ g_period = Num(2000)
    /\ g_seq[1].actions[6].sprite = "Rj"
    /\ g_seq[1].actions[6].offset > g_seq[1].actions[5].offset

(* C28: for every period, GallopPattern.build(period, 0.5) has the same     *)
(* duration and the same tone and sprite offsets, feet and notes as         *)
(* WalkJogPattern.build(period, any asymmetry).                             *)
C28_GallopHalfIsWalk ==
    (/\ g_seq # Null /\ g_kind = "gallop" /\ g_asymmetry = Num(500)
     /\ g_other # Null /\ g_other[1].kind = "walk" /\ g_other[1].period = g_period) =>
        /\ g_seq[1].duration = g_other[1].seq.duration
        /\ g_seq[1].actions = g_other[1].seq.actions

C28_Witness ==
    /\ g_seq # Null /\ g_kind = "gallop" /\ g_asymmetry = Num(500)
    /\ g_period = Num(1500)
    /\ g_other # Null /\ g_other[1].kind = "walk" /\ g_other[1].period = g_period
    /\ g_other[1].asymmetry = Num(900)
    /\ g_seq[1].actions[3].offset = Num(750)

(* C29 as stated: for every period, all gaps between the tones of           *)
(* SkipPattern.build(period, 0.5) are equal to one another.                 *)
C29_SkipHalfEven ==
    (g_seq # Null /\ g_kind = "skip" /\ g_asymmetry = Num(500)) =>
        \A i, j \in 1..4 : ToneGaps(g_seq[1])[i] = ToneGaps(g_seq[1])[j]

(* C29 amended: for every period, the gaps between the tones of             *)
(* SkipPattern.build(period, 0.5) alternate between three quarters and one  *)
(* quarter of the clamped period, a ratio of 3:1 between consecutive gaps.  *)
C29_SkipHalfThreeToOne ==
    (g_seq # Null /\ g_kind = "skip" /\ g_asymmetry = Num(500)) =>
        LET gaps == ToneGaps(g_seq[1])
            P == clampPeriod(g_period)
        IN  /\ Len(gaps) = 4
            /\ 4 * gaps[2] = P
            /\ gaps[1] = 3 * gaps[2]
            /\ gaps[3] = gaps[1]
            /\ gaps[4] = gaps[2]

C29_Witness ==
    /\ g_seq # Null /\ g_kind = "skip" /\ g_asymmetry = Num(500)
    /\ g_period = Num(1000)
    /\ ToneGaps(g_seq[1]) = <<Num(750), Num(250), Num(750), Num(250)>>

----------------------------------------------------------------------------
(* Properties of the scheduler's operations (Spec).  A step that raises     *)
(* nApply is a call of applySequence, a step that raises nStop a call of    *)
(* stop or dispose, a step that raises nStart a call of start, every other  *)
(* step is the transport running a callback or resting.                     *)
ApplyCall == nApply' = nApply + 1
StopCall == nStop' = nStop + 1
StartCall == nStart' = nStart + 1

(* C11: applySequence(s) on a stopped scheduler starts playback of s:       *)
(* afterwards running, currentSequence = s, pendingSequence = null, the     *)
(* transport clock is 0, the transport holds exactly one callback per       *)
(* action of s at 0 + offset, in action order, and one planning callback,   *)
(* the one nextCycleId names; and the first tone of a playback is issued    *)
(* for time 0 at clock value 0.                                             *)
C11_ApplyOnStoppedStarts ==
    /\ [][(~running /\ ApplyCall) =>
            \E s \in SchedSequences :
                LET n == Len(s.actions)
                IN  /\ running'
                    /\ currentSequence' = Some(s)
                    /\ pendingSequence' = Null
                    /\ seconds' = 0
                    /\ Len(events') = n + 1
                    /\ \A k \in 1..n :
                          /\ events'[k].time = 0 + s.actions[k].offset
                          /\ events'[k].cb = ActionCb(s.actions[k])
                    /\ events'[n + 1].cb.kind = "plan"
                    /\ nextCycleId' = Some(events'[n + 1].id)
                    /\ toneLog' = <<>>]_vars
    /\ [](toneLog # <<>> =>
            /\ toneLog[1].time = 0
            /\ toneLog[1].wallTime = 0
            /\ toneLog[1] \in CycleTones(0, cycleLog[1].sequence))

C11_Witness ==
    /\ running
    /\ nStop = 1
    /\ nApply = 2
    /\ currentSequence = Some(Skip1)
    /\ pendingSequence = Null
    /\ Len(cycleLog) = 1
    /\ Len(toneLog) = 1
    /\ toneLog[1].time = 0

(* C12: applySequence(s) on a running scheduler sets pendingSequence to s   *)
(* and changes nothing else: running, currentSequence, nextCycleId, the     *)
(* ids kept for the action callbacks, the callbacks outstanding in the      *)
(* transport with their times, the transport clock and what has been        *)
(* delivered are as before the call.                                        *)
C12_ApplyOnRunningOnlyQueues ==
    [][(running /\ ApplyCall) =>
          /\ lastApply' # Null
          /\ pendingSequence' = Some(lastApply'[1].sequence)
          /\ UNCHANGED <<running, currentSequence, nextCycleId, scheduledActionIds,
                         events, nextId, seconds, toneLog, spriteLog, stepLog,
                         cycleLog>>]_vars

C12_Witness ==
    /\ running
    /\ lastApply # Null
    /\ pendingSequence = Some(lastApply[1].sequence)
    /\ currentSequence # pendingSequence
    /\ seconds > 0
    /\ Len(events) >= 2

(* C13: after stop(), from a running or a stopped scheduler: running is     *)
(* false, currentSequence, pendingSequence and nextCycleId are null and     *)
(* the transport holds no callback; stop() on a stopped scheduler changes   *)
(* no field of the scheduler and nothing in the transport.                  *)
C13_StopClearsState ==
    [][StopCall =>
          /\ ~running'
          /\ currentSequence' = Null
          /\ pendingSequence' = Null
          /\ nextCycleId' = Null
          /\ scheduledActionIds' = <<>>
          /\ events' = <<>>
          /\ ~running =>
                UNCHANGED <<running, currentSequence, pendingSequence, nextCycleId,
                            scheduledActionIds, events, nextId, seconds>>]_vars

C13_Witness ==
    /\ ~running
    /\ nStop = 2
    /\ nApply = 1
    /\ nextId > 1
    /\ events = <<>>

(* C14: in every reachable state a sequence is pending only while the       *)
(* scheduler is running, and currentSequence is non-null exactly when it    *)
(* is running.                                                              *)
C14_PendingOnlyWhileRunning ==
    /\ pendingSequence # Null => running
    /\ currentSequence # Null <=> running

C14_Witness ==
    /\ ~running
    /\ nStop = 1
    /\ nApply = 2
    /\ Len(cycleLog) >= 2
    /\ pendingSequence = Null
    /\ currentSequence = Null

(* C15: the scheduler is created stopped; running goes from false to true   *)
(* only in a call of applySequence or start on a stopped scheduler, which   *)
(* always sets it, and from true to false only in a call of stop or         *)
(* dispose, which always clears it; a transport callback (planning or       *)
(* action) and applySequence on a running scheduler leave running as it is. *)
C15_RunningTransitions ==
    /\ ~running
    /\ [][/\ (~running /\ running') => (ApplyCall \/ StartCall)
          /\ (running /\ ~running') => StopCall
          /\ (~running /\ (ApplyCall \/ StartCall)) => running'
          /\ (running /\ ApplyCall) => running'
          /\ StopCall => ~running'
          /\ (~ApplyCall /\ ~StopCall /\ ~StartCall) => running' = running]_vars

C15_Witness ==
    /\ running
    /\ nStop = 1
    /\ nApply = 2
    /\ lastApply = Null
    /\ Len(cycleLog) = 3
    /\ cycleLog[3].plannedAt > 0

Drawn(action, time) ==
    [sprite |-> IF action.type = "tone" THEN action.foot ELSE action.sprite,
     time |-> time]

(* The callbacks of the cycles materialized up to cycle c, cycle after      *)
(* cycle, each cycle in the order of its actions.                           *)
RECURSIVE Materialized(_)
Materialized(c) ==
    IF c = 0 THEN <<>>
    ELSE Materialized(c - 1) \o
         [k \in 1..Len(cycleLog[c].sequence.actions) |->
             [time |-> cycleLog[c].start + cycleLog[c].sequence.actions[k].offset,
              action |-> cycleLog[c].sequence.actions[k]]]

NonDecreasing(log) == \A n \in 1..(Len(log) - 1) : log[n].time <= log[n + 1].time

(* C17: the callbacks run so far are, in the order they ran, the first of   *)
(* the materialized callbacks taken cycle after cycle and, within a cycle,  *)
(* in action order, each once; that order is the order of the scheduled     *)
(* times, also across a swap; the tones received are the tones among them   *)
(* in the same order; and while playing the callbacks not yet run are the   *)
(* ones still outstanding in the transport.                                 *)
C17_FiredInScheduledOrder ==
    LET all == Materialized(Len(cycleLog))
        fired == Len(spriteLog)
        acts == SelectSeq(events, LAMBDA e : e.cb.kind = "action")
    IN  /\ fired <= Len(all)
        /\ \A n \in 1..fired : spriteLog[n] = Drawn(all[n].action, all[n].time)
        /\ NonDecreasing(all)
        /\ NonDecreasing(spriteLog)
        /\ NonDecreasing(toneLog)
        /\ Len(toneLog) = Len(SelectSeq(SubSeq(all, 1, fired), LAMBDA x : x.action.type = "tone"))
        /\ \A n \in 1..Len(toneLog) :
              \E m \in 1..fired : /\ all[m].action.type = "tone"
                                   /\ all[m].time = toneLog[n].time
                                   /\ all[m].action.note = toneLog[n].note
        /\ running =>
              /\ Len(acts) = Len(all) - fired
              /\ \A j \in 1..Len(acts) :
                    /\ acts[j].time = all[fired + j].time
                    /\ acts[j].cb.action = all[fired + j].action

C17_Witness ==
    /\ running
    /\ Len(cycleLog) = 3
    /\ cycleLog[1].sequence = PATTERNS_build("gallop", Num(1000), Num(50))
    /\ cycleLog[2].sequence = Skip1
    /\ Len(spriteLog) > Len(cycleLog[1].sequence.actions) + Len(Skip1.actions)

(* A planning callback that promotes the pending sequence.                  *)
Promotion ==
    /\ pendingSequence # Null
    /\ pendingSequence' = Null
    /\ ~ApplyCall /\ ~StopCall /\ ~StartCall

ActionEvents(evs) == SelectSeq(evs, LAMBDA e : e.cb.kind = "action")

(* C18: the planning callback that promotes a pending sequence removes no   *)
(* callback from the transport: every action callback outstanding before    *)
(* it is outstanding after it with the same id, time and action, and the    *)
(* callbacks it adds are the new sequence's actions at the boundary +       *)
(* offset.  So, as long as stop is not called, every callback of the        *)
(* cycles materialized before the swap has run for its scheduled time or    *)
(* is still outstanding at that time, and every cycle materialized from     *)
(* the promotion on is one of the new sequence.                             *)
C18_PromotionCancelsNothing ==
    /\ [][Promotion =>
            LET new == pendingSequence[1]
                before == ActionEvents(events)
                after == ActionEvents(events')
                boundary == CycleEnd(Len(cycleLog))
            IN  /\ currentSequence' = Some(new)
                /\ Len(cycleLog') = Len(cycleLog) + 1
                /\ cycleLog'[Len(cycleLog')].start = boundary
                /\ cycleLog'[Len(cycleLog')].sequence = new
                /\ Len(after) = Len(before) + Len(new.actions)
                /\ \A j \in 1..Len(before) : after[j] = before[j]
                /\ \A k \in 1..Len(new.actions) :
                      /\ after[Len(before) + k].time = boundary + new.actions[k].offset
                      /\ after[Len(before) + k].cb = ActionCb(new.actions[k])
                /\ spriteLog' = spriteLog
                /\ toneLog' = toneLog]_vars
    /\ []((running /\ lastApply # Null /\ Len(cycleLog) > lastApply[1].planned) =>
            LET p == lastApply[1].planned
                old == Materialized(p)
                fired == Len(spriteLog)
            IN  /\ \A n \in 1..Len(old) :
                      IF n <= fired
                        THEN spriteLog[n] = Drawn(old[n].action, old[n].time)
                        ELSE \E e \in ToSet(events) :
                                /\ e.time = old[n].time
                                /\ e.cb = ActionCb(old[n].action)
                                /\ e.time >= seconds
                /\ \A i \in (p + 1)..Len(cycleLog) :
                      cycleLog[i].sequence = lastApply[1].sequence)

C18_Witness ==
    /\ running
    /\ lastApply # Null
    /\ Len(cycleLog) = lastApply[1].planned + 1
    /\ cycleLog[lastApply[1].planned].sequence # lastApply[1].sequence
    /\ \E e \in ToSet(events) :
          /\ e.cb.kind = "action"
          /\ e.time < CycleEnd(lastApply[1].planned)

(* C19: the n-th tone handed to a synth, the n-th step logged and the n-th  *)
(* sprite handed to Tone.Draw carry the time cycleStart + offset of the     *)
(* n-th materialized tone, respectively action, where cycleStart is the     *)
(* logical start of its cycle; from the second cycle on that start is       *)
(* later than the clock value at which the cycle was planned.               *)
C19_IssuedForScheduledTime ==
    LET all == Materialized(Len(cycleLog))
        tones == SelectSeq(all, LAMBDA x : x.action.type = "tone")
    IN  /\ Len(toneLog) <= Len(tones)
        /\ Len(stepLog) = Len(toneLog)
        /\ \A n \in 1..Len(toneLog) :
              /\ toneLog[n].time = tones[n].time
              /\ toneLog[n].note = tones[n].action.note
              /\ toneLog[n].synth = (IF tones[n].action.foot = "L" THEN "left" ELSE "right")
              /\ stepLog[n].at = tones[n].time
              /\ stepLog[n].foot = tones[n].action.foot
        /\ Len(spriteLog) <= Len(all)
        /\ \A n \in 1..Len(spriteLog) : spriteLog[n].time = all[n].time
        /\ \A i \in 2..Len(cycleLog) :
              /\ cycleLog[i].plannedAt < cycleLog[i].start
              /\ \A n \in 1..Len(toneLog) :
                    toneLog[n].time >= cycleLog[i].start => toneLog[n].time > cycleLog[i].plannedAt

C19_Witness ==
    /\ Len(cycleLog) >= 2
    /\ cycleLog[2].plannedAt = Num(400)
    /\ cycleLog[2].start = Num(500)
    /\ Len(toneLog) = 4
    /\ toneLog[3].time = Num(500)
    /\ toneLog[3].wallTime = Num(500)

(* C20: the first cycle of a playback is materialized with cycleStart 0     *)
(* and every later one with the cycleStart of the cycle before it plus the  *)
(* duration of the sequence that cycle played, whether or not the sequence  *)
(* changed between them; every callback of a cycle lies at or after its     *)
(* start and before the start of the next; and the outstanding planning     *)
(* callback carries the end of the last cycle.                              *)
C20_CyclesContiguous ==
    /\ Len(cycleLog) >= 1 => cycleLog[1].start = 0
    /\ \A i \in 1..(Len(cycleLog) - 1) :
          cycleLog[i + 1].start = cycleLog[i].start + cycleLog[i].sequence.duration
    /\ \A i \in 1..Len(cycleLog) :
          \A k \in 1..Len(cycleLog[i].sequence.actions) :
              LET t == cycleLog[i].start + cycleLog[i].sequence.actions[k].offset
              IN  t >= cycleLog[i].start /\ t < CycleEnd(i)
    /\ running =>
          /\ Len(cycleLog) >= 1
          /\ \A e \in ToSet(events) :
                e.cb.kind = "plan" => e.cb.nextCycleStart = CycleEnd(Len(cycleLog))

C20_Witness ==
    /\ Len(cycleLog) = 4
    /\ cycleLog[1].sequence.duration = Num(500)
    /\ cycleLog[2].sequence.duration = Num(500)
    /\ cycleLog[3].sequence.duration = Num(2000)
    /\ cycleLog[4].start = Num(3000)

(* C21: in a step that leaves the scheduler running and is not a restart,   *)
(* currentSequence changes only when a planning callback runs               *)
(* scheduleCycle, and then it takes the value pendingSequence had, which    *)
(* is null after the step; applySequence on a running scheduler and the     *)
(* callback of an action leave currentSequence as it is.                    *)
C21_SwapOnlyInScheduleCycle ==
    [][/\ (running /\ running' /\ ~StartCall /\ currentSequence' # currentSequence) =>
            /\ ~ApplyCall /\ ~StopCall
            /\ Len(cycleLog') = Len(cycleLog) + 1
            /\ pendingSequence # Null
            /\ currentSequence' = pendingSequence
            /\ pendingSequence' = Null
       /\ (running /\ ApplyCall) => currentSequence' = currentSequence
       /\ (~ApplyCall /\ ~StopCall /\ ~StartCall /\ cycleLog' = cycleLog) =>
            currentSequence' = currentSequence]_vars

C21_Witness ==
    /\ running
    /\ lastApply # Null
    /\ Len(cycleLog) = lastApply[1].planned + 2
    /\ currentSequence = Some(lastApply[1].sequence)
    /\ cycleLog[lastApply[1].planned].sequence # lastApply[1].sequence
    /\ pendingSequence = Null
    /\ Len(toneLog) >= 3

(* The time at which the cycle beginning at N is planned.                   *)
PlanningTime(N) == Max2(0, N - SCHEDULER_LOOKAHEAD)

(* The cycle boundaries known at a state: the starts of the cycles          *)
(* materialized and the end of the last of them.                            *)
Boundaries ==
    {cycleLog[i].start : i \in 1..Len(cycleLog)} \cup
    (IF cycleLog = <<>> THEN {} ELSE {CycleEnd(Len(cycleLog))})

IsMaterialized(N) == \E i \in 1..Len(cycleLog) : cycleLog[i].start = N

(* C30: the planning callback for the cycle beginning at N runs at          *)
(* max(0, N - 0.1), and the pending sequence is promoted there: when        *)
(* applySequence is called strictly before N - 0.1, the cycle at N is not   *)
(* materialized yet and is then materialized from the new sequence; when it *)
(* is called after N - 0.1 and before N, the cycle at N is already          *)
(* materialized from the old sequence and the new one first plays in the    *)
(* cycle after it.                                                          *)
C30_PromotedAtPlanningTime ==
    /\ [](\A i \in 1..Len(cycleLog) :
            cycleLog[i].plannedAt = PlanningTime(cycleLog[i].start))
    /\ [][(ApplyCall /\ running) =>
            \A N \in Boundaries :
                /\ seconds < N - SCHEDULER_LOOKAHEAD =>
                        /\ ~IsMaterialized(N)
                        /\ N = CycleEnd(Len(cycleLog))
                /\ (seconds > N - SCHEDULER_LOOKAHEAD /\ seconds < N) =>
                        /\ IsMaterialized(N)
                        /\ N = cycleLog[Len(cycleLog)].start
                        /\ Some(cycleLog[Len(cycleLog)].sequence) = currentSequence']_vars
    /\ [](lastApply # Null =>
            LET la == lastApply[1]
                p == la.planned
            IN  \A i \in 1..Len(cycleLog) :
                    /\ i > p => cycleLog[i].sequence = la.sequence
                    /\ i = p + 1 =>
                          /\ cycleLog[i].start = CycleEnd(p)
                          /\ cycleLog[i].plannedAt = PlanningTime(CycleEnd(p))
                    /\ (i <= p /\ pendingSequence # Null) =>
                          cycleLog[p].sequence = currentSequence[1])

(* A sequence applied between the planning of a cycle and its start has     *)
(* waited that cycle out and plays in the one after it.                     *)
C30_Witness ==
    /\ lastApply # Null
    /\ lastApply[1].planned = lastApply[1].inCycle + 1
    /\ seconds > cycleLog[lastApply[1].planned].plannedAt
    /\ Len(cycleLog) = lastApply[1].planned + 1
    /\ cycleLog[lastApply[1].planned].sequence # lastApply[1].sequence
    /\ cycleLog[lastApply[1].planned + 1].sequence = lastApply[1].sequence
    /\ cycleLog[lastApply[1].planned + 1].plannedAt =
          cycleLog[lastApply[1].planned].start
            + cycleLog[lastApply[1].planned].sequence.duration - SCHEDULER_LOOKAHEAD

----------------------------------------------------------------------------
(* The scheduler handed sequences no generator builds (SpecMalformed).      *)
(* StepSequence is a plain record type, so applySequence accepts them.      *)
MaxCycles == 4          \* cycles materialized in one playback of a malformed sequence

Reverse(seq) == [k \in 1..Len(seq) |-> seq[Len(seq) + 1 - k]]

MalformedSequences ==
    { [Walk1 EXCEPT !.duration = 0],
      [Walk1 EXCEPT !.duration = 0 - Num(500)],
      [Walk1 EXCEPT !.actions = Reverse(@)] }

(* advanceTo's loop, stopped after MaxCycles cycles: with a duration <= 0   *)
(* the planning callback is always due and the loop has no end.             *)
CappedFire ==
    /\ Len(cycleLog) < MaxCycles
    /\ FireNext

NextMalformed ==
    \/ \E sequence \in MalformedSequences \cup {Walk1} : ApplySequence(sequence)
    \/ Stop
    \/ CappedFire

SpecMalformed == Init /\ [][NextMalformed]_vars

WellFormed(sequence) ==
    /\ sequence.duration > 0
    /\ \A k \in 1..(Len(sequence.actions) - 1) :
          sequence.actions[k].offset <= sequence.actions[k + 1].offset

(* C22: a sequence with duration <= 0 or with offsets that decrease is      *)
(* refused: the scheduler never plays it (it is never the current or the    *)
(* pending sequence) and materializes no cycle from it.                     *)
C22_MalformedFailsFast ==
    /\ currentSequence # Null => WellFormed(currentSequence[1])
    /\ pendingSequence # Null => WellFormed(pendingSequence[1])
    /\ \A i \in 1..Len(cycleLog) : WellFormed(cycleLog[i].sequence)

----------------------------------------------------------------------------
(* The App component: its input boxes, buttons and handlers (SpecUI).  An   *)
(* input box is modelled by what Number.parseFloat reads in it.  A handler  *)
(* runs up to its await Tone.start() in one step and its continuation in a  *)
(* later one.                                                               *)
(* Number.toFixed(2), read back by parseFloat: the nearest hundredth.       *)
ToFixed2(value) ==
    LET hundredth == SCALE \div 100
    IN  ((value + hundredth \div 2) \div hundredth) * hundredth

PeriodStrings == {Null, Some(Num(250)), Some(Num(1000)), Some(Num(2500))}
AsymmetryStrings == {Null, Some(Half(Num(1))), Some(ONE)}

MaxAwaiting == 1        \* handlers suspended at await Tone.start() at one time

(* A handler is admitted while the scheduler calls made and the handlers    *)
(* still suspended stay within the bound on scheduler calls, and within     *)
(* the bound on suspended handlers.                                         *)
Admitted ==
    /\ nApply + nStop + nStart + Len(awaiting) < MaxOps
    /\ Len(awaiting) < MaxAwaiting

IsFiniteIn(str, low, high) == str # Null /\ str[1] > low /\ str[1] < high

getEffectiveValuesClamps(kind, periodStr, asymStr) ==
    [period |-> clampPeriod(IF periodStr # Null THEN periodStr[1] ELSE DEFAULT_PERIOD),
     asymmetry |-> IF kind = "walk" THEN 0
                   ELSE clampAsymmetry(IF asymStr # Null THEN asymStr[1] ELSE DEFAULT_ASYMMETRY),
     valid |-> TRUE]

getEffectiveValues(kind, periodStr, asymStr) ==
    LET periodInvalid ==
            periodStr = Null \/ periodStr[1] < PERIOD_MIN \/ periodStr[1] > PERIOD_MAX
        rawAsymmetry ==
            IF IsFiniteIn(asymStr, 0, ONE) THEN asymStr[1] ELSE DEFAULT_ASYMMETRY
        asymmetry == IF kind = "walk" THEN 0 ELSE clampAsymmetry(rawAsymmetry)
        asymmetryInvalidForKind == kind # "walk" /\ ~IsFiniteIn(asymStr, 0, ONE)
    IN  [period |-> clampPeriod(IF periodStr # Null THEN periodStr[1] ELSE DEFAULT_PERIOD),
         asymmetry |-> asymmetry,
         valid |-> ~periodInvalid /\ ~asymmetryInvalidForKind]

(* onChange of the two input boxes; the asymmetry box is disabled for walk. *)
EditPeriod ==
    /\ \E str \in PeriodStrings : periodInput' = str
    /\ UNCHANGED <<pattern, asymmetryInput, isPlaying, awaiting, svars, gvars, pvars>>

EditAsymmetry ==
    /\ pattern # "walk"
    /\ \E str \in AsymmetryStrings : asymmetryInput' = str
    /\ UNCHANGED <<pattern, periodInput, isPlaying, awaiting, svars, gvars, pvars>>

PressPatternAnyState(kind) ==
    LET nextAsymmetryInput ==
            IF kind = "walk" THEN Some(0)
            ELSE IF ~IsFiniteIn(asymmetryInput, 0, ONE) THEN Some(ToFixed2(DEFAULT_ASYMMETRY))
            ELSE asymmetryInput
        ev == getEffectiveValues(kind, periodInput, nextAsymmetryInput)
    IN  /\ ev.valid => Admitted
        /\ pattern' = kind
        /\ asymmetryInput' = nextAsymmetryInput
        /\ awaiting' = IF ev.valid
                         THEN Append(awaiting, [handler |-> "pattern", kind |-> kind,
                                                period |-> ev.period,
                                                asymmetry |-> ev.asymmetry,
                                                substituted |->
                                                    nextAsymmetryInput # asymmetryInput
                                                    /\ kind # "walk"])
                         ELSE awaiting
        /\ UNCHANGED <<periodInput, isPlaying, svars, gvars, pvars>>

(* onPatternPress(kind), up to await Tone.start().                          *)
PressPattern(kind) ==
    LET nextAsymmetryInput ==
            IF kind = "walk" THEN Some(0)
            ELSE IF ~IsFiniteIn(asymmetryInput, 0, ONE) THEN Some(ToFixed2(DEFAULT_ASYMMETRY))
            ELSE asymmetryInput
        ev == getEffectiveValues(kind, periodInput, nextAsymmetryInput)
        goes == isPlaying /\ ev.valid
    IN  /\ goes => Admitted
        /\ pattern' = kind
        /\ asymmetryInput' = nextAsymmetryInput
        /\ awaiting' = IF goes
                         THEN Append(awaiting, [handler |-> "pattern", kind |-> kind,
                                                period |-> ev.period,
                                                asymmetry |-> ev.asymmetry,
                                                substituted |->
                                                    nextAsymmetryInput # asymmetryInput
                                                    /\ kind # "walk"])
                         ELSE awaiting
        /\ UNCHANGED <<periodInput, isPlaying, svars, gvars, pvars>>

(* handleApply, up to await Tone.start().                                   *)
PressApply ==
    LET ev == getEffectiveValues(pattern, periodInput, asymmetryInput)
    IN  /\ ev.valid => Admitted
        /\ awaiting' = IF ev.valid
                         THEN Append(awaiting, [handler |-> "apply", kind |-> pattern,
                                                period |-> ev.period,
                                                asymmetry |-> ev.asymmetry,
                                                substituted |-> FALSE])
                         ELSE awaiting
        /\ UNCHANGED <<pattern, periodInput, asymmetryInput, isPlaying, svars, gvars, pvars>>

(* The rest of handleApply or onPatternPress, once Tone.start() resolved.   *)
Resume ==
    /\ awaiting # <<>>
    /\ LET c == Head(awaiting)
           sequence == PATTERNS_build(c.kind, c.period, c.asymmetry)
       IN  /\ CallApplySequence(sequence)
           /\ isPlaying' = (IF c.handler = "apply" THEN TRUE ELSE isPlaying)
           /\ periodInput' = Some(ToFixed2(c.period))
           /\ asymmetryInput' = Some(ToFixed2(c.asymmetry))
    /\ awaiting' = Tail(awaiting)
    /\ UNCHANGED <<pattern, gvars, pvars>>

(* stopMetronome; the Stop button is disabled unless isPlaying.             *)
PressStop ==
    /\ isPlaying
    /\ CallStop
    /\ isPlaying' = FALSE
    /\ UNCHANGED <<pattern, periodInput, asymmetryInput, awaiting, gvars, pvars>>

NextUI ==
    \/ EditPeriod
    \/ EditAsymmetry
    \/ \E kind \in PatternKind : PressPattern(kind)
    \/ PressApply
    \/ Resume
    \/ PressStop

SpecUI == Init /\ [][NextUI]_vars

(* ---------------------------------------------------------------------- *)
(* Properties of the input validation.                                      *)

PeriodInRange(str) == str # Null /\ str[1] >= PERIOD_MIN /\ str[1] <= PERIOD_MAX
AsymmetryInRange(kind, str) == kind = "walk" \/ IsFiniteIn(str, 0, ONE)

(* A handler went past its validation: it is now suspended at Tone.start(). *)
HandlerProceeds == Len(awaiting') = Len(awaiting) + 1
Proceeding == awaiting'[Len(awaiting')]

BuiltInRange(c) ==
    /\ c.period >= PERIOD_MIN /\ c.period <= PERIOD_MAX
    /\ IF c.kind = "walk" THEN c.asymmetry = 0
       ELSE c.asymmetry >= Num(1) /\ c.asymmetry <= ONE - Num(1)

(* The sequence handed to applySequence in a step that calls it.            *)
PassedSequence == IF running THEN pendingSequence' ELSE currentSequence'

(* C23 as stated: a handler (Apply or a pattern button) goes on to the      *)
(* scheduler only if the period input was a finite number in [0.5, 2.0]     *)
(* and, for Skip and Gallop, the asymmetry input was a finite number        *)
(* strictly between 0 and 1 when the button was pressed.                    *)
C23_OutOfRangeNeverProceeds ==
    [][HandlerProceeds =>
          /\ PeriodInRange(periodInput)
          /\ AsymmetryInRange(Proceeding.kind, asymmetryInput)]_vars

(* C23 amended: a handler goes on to the scheduler only if the period input *)
(* was a finite number in [0.5, 2.0]; Apply also only if, for Skip and      *)
(* Gallop, the asymmetry input was a finite number strictly between 0 and   *)
(* 1, while a pattern button pressed for Skip or Gallop over an out-of-range*)
(* asymmetry input goes on with the default asymmetry 0.5.  A step in which *)
(* no handler resumes and stop is not pressed leaves the scheduler and      *)
(* isPlaying unchanged, and every sequence passed to applySequence was      *)
(* built from a period in [0.5, 2.0] and an asymmetry of 0 (Walk) or in     *)
(* [0.001, 0.999].                                                          *)
C23_OutOfRangeNeverReachesScheduler ==
    [][/\ HandlerProceeds =>
            /\ PeriodInRange(periodInput)
            /\ Proceeding.handler = "apply" =>
                    AsymmetryInRange(Proceeding.kind, asymmetryInput)
            /\ ~AsymmetryInRange(Proceeding.kind, asymmetryInput) =>
                    Proceeding.asymmetry = DEFAULT_ASYMMETRY
            /\ BuiltInRange(Proceeding)
       /\ Len(awaiting') >= Len(awaiting) /\ ~StopCall =>
            UNCHANGED <<running, currentSequence, pendingSequence, events, isPlaying, nApply>>
       /\ ApplyCall =>
            LET c == Head(awaiting)
            IN  /\ BuiltInRange(c)
                /\ PassedSequence = Some(PATTERNS_build(c.kind, c.period, c.asymmetry))]_vars

(* A pattern button pressed while playing over an out-of-range asymmetry    *)
(* input stands suspended before its applySequence call.                    *)
C23_Witness ==
    \E i \in 1..Len(awaiting) :
        /\ awaiting[i].handler = "pattern"
        /\ awaiting[i].substituted
        /\ awaiting[i].asymmetry = DEFAULT_ASYMMETRY
        /\ isPlaying

(* ---------------------------------------------------------------------- *)
(* Properties of pattern selection.                                         *)

(* The step selects another pattern kind over inputs that are in range.     *)
SelectsValid ==
    /\ pattern' # pattern
    /\ PeriodInRange(periodInput)
    /\ AsymmetryInRange(pattern', asymmetryInput)

(* The handler goes on to applySequence with the pattern built from the     *)
(* kind just selected and the two inputs.                                   *)
ProceedsWithSelection ==
    /\ HandlerProceeds
    /\ Proceeding.kind = pattern'
    /\ Proceeding.period = periodInput[1]
    /\ Proceeding.asymmetry =
            (IF pattern' = "walk" THEN 0 ELSE clampAsymmetry(asymmetryInput[1]))

(* C24 as stated: selecting a pattern kind over valid inputs, in any        *)
(* playing state, triggers applySequence with a sequence built from the     *)
(* selected kind, period and asymmetry.                                     *)
C24_SelectingAlwaysApplies ==
    [][SelectsValid => ProceedsWithSelection]_vars

(* C24 amended: selecting a pattern kind over valid inputs while playing    *)
(* triggers applySequence with a sequence freshly built from the selected   *)
(* kind, period and asymmetry; while stopped it changes the selection and   *)
(* the asymmetry input only, calling no scheduler operation.  The sequence  *)
(* applySequence receives is the one built from the values the handler      *)
(* read.                                                                    *)
C24_SelectingAppliesWhilePlaying ==
    [][/\ SelectsValid =>
            IF isPlaying
                THEN ProceedsWithSelection
                ELSE UNCHANGED <<awaiting, isPlaying, periodInput, svars>>
       /\ ApplyCall =>
            LET c == Head(awaiting)
            IN  PassedSequence = Some(PATTERNS_build(c.kind, c.period, c.asymmetry))]_vars

(* While playing, a pattern button pressed over inputs left in range stands *)
(* suspended before its applySequence call.                                 *)
C24_Witness ==
    /\ isPlaying
    /\ running
    /\ awaiting # <<>>
    /\ awaiting[Len(awaiting)].handler = "pattern"
    /\ awaiting[Len(awaiting)].kind = pattern
    /\ ~awaiting[Len(awaiting)].substituted

(* ---------------------------------------------------------------------- *)
(* Properties of the isPlaying flag.                                        *)

(* C31: whenever no click handler is suspended at its await Tone.start(),   *)
(* isPlaying is true exactly when the scheduler is running.                 *)
C31_IsPlayingAgrees == awaiting = <<>> => (isPlaying <=> running)

(* ---------------------------------------------------------------------- *)
(* Properties of the step log.                                              *)

(* The names of the sequences the tones of the cycles 1..c were             *)
(* materialized from, tone after tone.                                      *)
RECURSIVE ToneNames(_)
ToneNames(c) ==
    IF c = 0 THEN <<>>
    ELSE ToneNames(c - 1) \o
         [k \in 1..Len(TonesOf(cycleLog[c].sequence)) |-> cycleLog[c].sequence.name]

(* C32: each 'step' log event carries the name of the sequence its tone     *)
(* was materialized from, also for a tone of the old sequence that fires    *)
(* after the planning callback has promoted the pending sequence.           *)
C32_StepNamesItsSequence ==
    \A n \in 1..Len(stepLog) :
        /\ n <= Len(ToneNames(Len(cycleLog)))
        /\ stepLog[n].pattern = Some(ToneNames(Len(cycleLog))[n])

(* ---------------------------------------------------------------------- *)
(* Properties of repeated applySequence calls.                              *)

(* The step is an applySequence call that finds an earlier sequence still   *)
(* pending.                                                                 *)
Supersedes == ApplyCall /\ running /\ pendingSequence # Null

(* C33: when applySequence is called several times while running before     *)
(* the next planning callback runs, only the last sequence applied is       *)
(* promoted: the call replaces the pending sequence, for which nothing was  *)
(* materialized and which never was currentSequence since it was applied;   *)
(* a promotion takes the sequence of the last call, and every cycle         *)
(* materialized after the last call plays that sequence.                    *)
C33_LastApplyWins ==
    /\ [][Supersedes =>
            /\ lastApply # Null
            /\ pendingSequence = Some(lastApply[1].sequence)
            /\ Len(cycleLog) = lastApply[1].planned
            /\ currentSequence = Some(cycleLog[Len(cycleLog)].sequence)
            /\ lastApply' # Null
            /\ pendingSequence' = Some(lastApply'[1].sequence)
            /\ UNCHANGED <<currentSequence, events, cycleLog, toneLog, spriteLog,
                           scheduledActionIds, nextCycleId>>]_vars
    /\ [][(running /\ running' /\ ~StartCall /\ currentSequence' # currentSequence) =>
            /\ lastApply # Null
            /\ currentSequence' = Some(lastApply[1].sequence)
            /\ pendingSequence' = Null]_vars
    /\ [](lastApply # Null =>
            \A i \in 1..Len(cycleLog) :
                i > lastApply[1].planned => cycleLog[i].sequence = lastApply[1].sequence)

(* Three applySequence calls, the second and the third during the first     *)
(* cycle before its planning callback; the second cycle plays the third.    *)
C33_Witness ==
    /\ nApply = 3 /\ nStop = 0 /\ nStart = 0
    /\ lastApply # Null
    /\ lastApply[1].planned = 1
    /\ Len(cycleLog) = 2
    /\ cycleLog[1].sequence = Walk1
    /\ cycleLog[2].sequence = Skip1
    /\ lastApply[1].sequence = Skip1
    /\ currentSequence = Some(Skip1)
    /\ \E n \in 1..Len(toneLog) : toneLog[n].time >= Num(1000)

(* ---------------------------------------------------------------------- *)
(* Playback with a transport that keeps firing its events (SpecLive).       *)

(* The planning callback outstanding is for a cycle that begins within the  *)
(* time played: a sequence applied now is promoted and heard before the     *)
(* transport comes to rest.                                                 *)
LiveRoom ==
    \E k \in 1..Len(events) :
        /\ events[k].cb.kind = "plan"
        /\ events[k].cb.nextCycleStart <= MaxTime

ApplyLive(sequence) ==
    /\ running => LiveRoom
    /\ ApplySequence(sequence)

NextLive ==
    \/ \E sequence \in SchedSequences : ApplyLive(sequence)
    \/ Stop
    \/ FireNext
    \/ Idle

(* The transport's part of a FireNext step, which no other step shares: the *)
(* event run last becomes the earliest event outstanding. It is enabled     *)
(* exactly when FireNext is, and a step of NextLive is a FireNext step      *)
(* exactly when it is a TransportRuns step that changes lastFired.          *)
TransportRuns ==
    /\ \E k \in 1..Len(events) :
          /\ IsNextEvent(events, k)
          /\ events[k].time <= MaxTime
          /\ lastFired' = Some(events[k].id)
    /\ UNCHANGED <<nApply, nStop, nStart>>

SpecLive == Init /\ [][NextLive]_vars /\ WF_lastFired(TransportRuns)

CallsMade == nApply + nStop + nStart

(* The sequence of the last applySequence call is current and one of its    *)
(* tones has fired.                                                         *)
PromotedAndHeard ==
    /\ lastApply # Null
    /\ currentSequence = Some(lastApply[1].sequence)
    /\ pendingSequence = Null
    /\ Len(cycleLog) > lastApply[1].planned
    /\ \E n \in 1..Len(toneLog) :
          toneLog[n] \in CycleTones(cycleLog[lastApply[1].planned + 1].start,
                                    lastApply[1].sequence)

(* C34: after applySequence(s) on a running scheduler, unless stop or       *)
(* another applySequence is called, s eventually becomes currentSequence    *)
(* and a tone of s eventually fires, given that the transport keeps firing  *)
(* its events.                                                              *)
C34_EventuallyPromoted ==
    \A k \in 0..MaxOps :
        (lastApply # Null /\ CallsMade = k) ~> (CallsMade # k \/ PromotedAndHeard)

C34_Witness ==
    /\ PromotedAndHeard
    /\ cycleLog[lastApply[1].planned].sequence # lastApply[1].sequence
    /\ lastApply[1].planned = lastApply[1].inCycle + 1


PlanningCallbacks == {k \in 1..Len(events) : events[k].cb.kind = "plan"}

(* C35: while the scheduler runs exactly one planning callback is           *)
(* outstanding in the transport and nextCycleId holds its event id; while   *)
(* it is stopped no planning callback is outstanding and nextCycleId is     *)
(* null.                                                                    *)
C35_OnePlanningCallback ==
    IF running
      THEN \E k \in PlanningCallbacks :
              /\ PlanningCallbacks = {k}
              /\ nextCycleId = Some(events[k].id)
      ELSE PlanningCallbacks = {} /\ nextCycleId = Null

(* The second planning callback of a playback is outstanding, after a stop  *)
(* and a restart.                                                           *)
C35_Witness ==
    /\ running
    /\ nStop = 1
    /\ Len(cycleLog) = 2
    /\ \E k \in PlanningCallbacks :
          /\ nextCycleId = Some(events[k].id)
          /\ events[k].cb.nextCycleStart = CycleEnd(2)
    /\ \E k \in 1..Len(events) : events[k].cb.kind = "action"

(* The events registered by a step: ids are handed out in increasing order. *)
RegisteredAt(k) == events'[k].id >= nextId

(* C36: every callback, of an action or of planning, is registered for a    *)
(* transport time that is not before the transport time at which it is      *)
(* registered, in every cycle of the generators' sequences.                  *)
C36_NeverInThePast ==
    [][\A k \in 1..Len(events') : RegisteredAt(k) => events'[k].time >= seconds']_vars

(* The third cycle of the shortest sequence has just been registered, 0.1 s *)
(* before it starts, with the planning callback after it.                   *)
C36_Witness ==
    /\ running
    /\ Len(cycleLog) = 3
    /\ cycleLog[3].sequence.duration = PERIOD_MIN
    /\ cycleLog[3].plannedAt = seconds
    /\ seconds > 0
    /\ \E k \in 1..Len(events) :
          /\ events[k].cb.kind = "action"
          /\ events[k].time = cycleLog[3].start
          /\ events[k].time > seconds
    /\ \E k \in PlanningCallbacks : events[k].time > seconds

CycleLength(kind, period) ==
    IF kind = "skip" THEN 2 * clampPeriod(period) ELSE clampPeriod(period)

OutstandingActions == {k \in 1..Len(events) : events[k].cb.kind = "action"}

ActionCount(c) ==
    IF c >= 1 /\ c <= Len(cycleLog) THEN Len(cycleLog[c].sequence.actions) ELSE 0

(* C38: in every reachable state the action callbacks outstanding in the    *)
(* transport are at most as many as the actions of the cycle in progress    *)
(* and of the cycle after it together, and never more than 16, however many *)
(* cycles have elapsed and whatever sequences were swapped in.              *)
C38_OutstandingBounded ==
    LET c == CycleAt(cycleLog, seconds)
    IN  /\ Cardinality(OutstandingActions) <= ActionCount(c) + ActionCount(c + 1)
        /\ Cardinality(OutstandingActions) <= 16

(* The third cycle has been materialized from a swapped-in sequence while   *)
(* actions of the second are still outstanding.                             *)
C38_Witness ==
    /\ running
    /\ Len(cycleLog) = 3
    /\ CycleAt(cycleLog, seconds) = 2
    /\ cycleLog[3].sequence # cycleLog[2].sequence
    /\ Cardinality(OutstandingActions) > ActionCount(3)
    /\ Cardinality(OutstandingActions) > ActionCount(2) \div 2

----------------------------------------------------------------------------
(* The slider prototype, second component of src/prototype.js: the pattern  *)
(* queue of queuePattern and scheduleNextLoop.  The tone and sprite         *)
(* callbacks schedulePattern registers and the beat times are not part of   *)
(* the model; of a schedulePattern call it keeps the pattern and the feet   *)
(* the call consumes.  A handler sees isPlaying and currentPattern as       *)
(* rendered when it was created, so startMetronome resumes after its await  *)
(* with the values of the click.                                            *)
MaxLoops == 6           \* scheduleNextLoop calls
MaxProtoOps == 4        \* queuePattern calls and clicks on the start/stop button
MaxStarting == 2        \* startMetronome calls suspended at one time

(* What the sliders and the two buttons may hand to queuePattern.           *)
ProtoPatterns ==
    { DEFAULT_PATTERN,
      [period |-> Num(500), as |-> Num(500)],
      [period |-> Num(750), as |-> 0 - Num(500)] }

(* schedulePattern takes one foot from nextFootRef for each of the three    *)
(* beat times of calculateBeatTimes.                                        *)
schedulePatternFeet(foot) == IF foot = "L" THEN "R" ELSE "L"

ProtoAdmitted == nQueue + nToggle < MaxProtoOps

(* A click on the button while it shows Start: startMetronome up to         *)
(* await Tone.start().                                                      *)
startMetronome ==
    /\ ~protoIsPlaying
    /\ ProtoAdmitted
    /\ Len(starting) < MaxStarting
    /\ starting' = Append(starting, [isPlaying |-> protoIsPlaying,
                                     currentPattern |-> currentPattern])
    /\ nToggle' = nToggle + 1
    /\ UNCHANGED <<protoIsPlaying, currentPattern, queuedPattern, currentPatternRef,
                   queuedPatternRef, nextFootRef, roundsUntilSwitchRef, loopRef,
                   lastScheduled, lastQueue, nLoop, nQueue>>
    /\ UNCHANGED <<gvars, svars, uvars>>

(* startMetronome after its await.                                          *)
startMetronomeResumes ==
    /\ starting # <<>>
    /\ LET c == Head(starting)
       IN  IF c.isPlaying
             THEN UNCHANGED <<protoIsPlaying, queuedPattern, currentPatternRef,
                              queuedPatternRef, nextFootRef, roundsUntilSwitchRef,
                              loopRef, lastScheduled, lastQueue>>
             ELSE /\ protoIsPlaying' = TRUE
                  /\ currentPatternRef' = c.currentPattern
                  /\ queuedPatternRef' = Null
                  /\ queuedPattern' = Null
                  /\ nextFootRef' = schedulePatternFeet("L")
                  /\ roundsUntilSwitchRef' = 0
                  /\ lastScheduled' = Some(c.currentPattern)
                  /\ loopRef' = Some(c.currentPattern.period)
                  /\ lastQueue' = Null
    /\ starting' = Tail(starting)
    /\ UNCHANGED <<currentPattern, nLoop, nQueue, nToggle>>
    /\ UNCHANGED <<gvars, svars, uvars>>

(* A click on the button while it shows Stop.                               *)
stopMetronome ==
    /\ protoIsPlaying
    /\ ProtoAdmitted
    /\ protoIsPlaying' = FALSE
    /\ loopRef' = Null
    /\ queuedPattern' = Null
    /\ queuedPatternRef' = Null
    /\ nextFootRef' = "L"
    /\ roundsUntilSwitchRef' = 0
    /\ lastQueue' = Null
    /\ nToggle' = nToggle + 1
    /\ UNCHANGED <<currentPattern, currentPatternRef, starting, lastScheduled, nLoop, nQueue>>
    /\ UNCHANGED <<gvars, svars, uvars>>

queuePatternTwoRounds(queued) ==
    /\ ProtoAdmitted
    /\ IF protoIsPlaying
         THEN /\ queuedPatternRef' = Some(queued)
              /\ queuedPattern' = Some(queued)
              /\ roundsUntilSwitchRef' = ROUNDS_BEFORE_SWITCH - 1
              /\ lastQueue' = Some([pattern |-> queued, loops |-> 0, state |-> "queued"])
              /\ UNCHANGED <<currentPattern, currentPatternRef>>
         ELSE /\ queuedPatternRef' = Null
              /\ queuedPattern' = Null
              /\ currentPatternRef' = queued
              /\ currentPattern' = queued
              /\ roundsUntilSwitchRef' = 0
              /\ lastQueue' = Some([pattern |-> queued, loops |-> 0, state |-> "immediate"])
    /\ nQueue' = nQueue + 1
    /\ UNCHANGED <<protoIsPlaying, nextFootRef, loopRef, starting, lastScheduled, nLoop, nToggle>>
    /\ UNCHANGED <<gvars, svars, uvars>>

(* queuePattern(queued), called by the sliders' handlers, randomizePattern *)
(* and queueSymmetric.                                                      *)
queuePattern(queued) ==
    /\ ProtoAdmitted
    /\ IF protoIsPlaying
         THEN /\ queuedPatternRef' = Some(queued)
              /\ queuedPattern' = Some(queued)
              /\ roundsUntilSwitchRef' = ROUNDS_BEFORE_SWITCH
              /\ lastQueue' = Some([pattern |-> queued, loops |-> 0, state |-> "queued"])
              /\ UNCHANGED <<currentPattern, currentPatternRef>>
         ELSE /\ queuedPatternRef' = Null
              /\ queuedPattern' = Null
              /\ currentPatternRef' = queued
              /\ currentPattern' = queued
              /\ roundsUntilSwitchRef' = 0
              /\ lastQueue' = Some([pattern |-> queued, loops |-> 0, state |-> "immediate"])
    /\ nQueue' = nQueue + 1
    /\ UNCHANGED <<protoIsPlaying, nextFootRef, loopRef, starting, lastScheduled, nLoop, nToggle>>
    /\ UNCHANGED <<gvars, svars, uvars>>

(* The Tone.Loop of loopRef calls scheduleNextLoop.  lastQueue counts the   *)
(* calls made since the pattern was queued.                                 *)
scheduleNextLoop ==
    /\ loopRef # Null
    /\ nLoop < MaxLoops
    /\ IF queuedPatternRef # Null /\ roundsUntilSwitchRef <= 0
         THEN /\ currentPatternRef' = queuedPatternRef[1]
              /\ currentPattern' = queuedPatternRef[1]
              /\ queuedPatternRef' = Null
              /\ queuedPattern' = Null
              /\ roundsUntilSwitchRef' = 0
              /\ loopRef' = Some(queuedPatternRef[1].period)
              /\ lastScheduled' = Some(queuedPatternRef[1])
              /\ lastQueue' = IF lastQueue # Null
                                THEN Some([lastQueue[1] EXCEPT !.loops = @ + 1,
                                                               !.state = "promoted"])
                                ELSE Null
         ELSE /\ roundsUntilSwitchRef' = IF queuedPatternRef # Null
                                           THEN roundsUntilSwitchRef - 1
                                           ELSE roundsUntilSwitchRef
              /\ lastScheduled' = Some(currentPatternRef)
              /\ lastQueue' = IF lastQueue # Null /\ lastQueue[1].state = "queued"
                                THEN Some([lastQueue[1] EXCEPT !.loops = @ + 1])
                                ELSE lastQueue
              /\ UNCHANGED <<currentPattern, currentPatternRef, queuedPatternRef,
                             queuedPattern, loopRef>>
    /\ nextFootRef' = schedulePatternFeet(nextFootRef)
    /\ nLoop' = nLoop + 1
    /\ UNCHANGED <<protoIsPlaying, starting, nQueue, nToggle>>
    /\ UNCHANGED <<gvars, svars, uvars>>

NextProto ==
    \/ startMetronome
    \/ startMetronomeResumes
    \/ stopMetronome
    \/ \E queued \in ProtoPatterns : queuePattern(queued)
    \/ scheduleNextLoop

SpecProto == Init /\ [][NextProto]_vars

LoopCall == nLoop' = nLoop + 1
QueueCall == nQueue' = nQueue + 1
Waiting == lastQueue # Null /\ lastQueue[1].state = "queued"

(* C39: in the slider prototype a pattern queued while playing stays queued *)
(* while the next ROUNDS_BEFORE_SWITCH calls of scheduleNextLoop each       *)
(* schedule the old pattern, and the call after them promotes it and        *)
(* schedules it; queuePattern while playing puts its argument in the queue, *)
(* in place of what was queued, and sets the countdown to                   *)
(* ROUNDS_BEFORE_SWITCH; queuePattern while stopped makes its argument the  *)
(* current pattern at once and leaves nothing queued.                       *)
C39_PromotedByFourthLoop ==
    /\ [](IF Waiting
            THEN /\ protoIsPlaying
                 /\ queuedPatternRef = Some(lastQueue[1].pattern)
                 /\ lastQueue[1].loops <= ROUNDS_BEFORE_SWITCH
            ELSE queuedPatternRef = Null)
    /\ [][(LoopCall /\ Waiting) =>
            IF lastQueue[1].loops < ROUNDS_BEFORE_SWITCH
              THEN /\ lastScheduled' = Some(currentPatternRef)
                   /\ UNCHANGED <<currentPatternRef, queuedPatternRef>>
              ELSE /\ lastScheduled' = Some(lastQueue[1].pattern)
                   /\ currentPatternRef' = lastQueue[1].pattern
                   /\ queuedPatternRef' = Null]_vars
    /\ [][(LoopCall /\ ~Waiting) =>
            /\ lastScheduled' = Some(currentPatternRef)
            /\ UNCHANGED <<currentPatternRef, queuedPatternRef>>]_vars
    /\ [][QueueCall =>
            IF protoIsPlaying
              THEN /\ queuedPatternRef' = Some(lastQueue'[1].pattern)
                   /\ lastQueue'[1].loops = 0
                   /\ roundsUntilSwitchRef' = ROUNDS_BEFORE_SWITCH
                   /\ UNCHANGED currentPatternRef
              ELSE /\ currentPatternRef' = lastQueue'[1].pattern
                   /\ queuedPatternRef' = Null]_vars

(* A pattern was queued while another was waiting, and the fourth call of   *)
(* scheduleNextLoop after it promoted it.                                   *)
C39_Witness ==
    /\ protoIsPlaying
    /\ nToggle = 1
    /\ nQueue = 2
    /\ nLoop = 5
    /\ currentPattern = currentPatternRef
    /\ lastQueue # Null
    /\ lastQueue[1].state = "promoted"
    /\ lastQueue[1].loops = ROUNDS_BEFORE_SWITCH + 1
    /\ lastQueue[1].pattern # DEFAULT_PATTERN
    /\ currentPatternRef = lastQueue[1].pattern
    /\ lastScheduled = Some(lastQueue[1].pattern)
    /\ loopRef = Some(lastQueue[1].pattern.period)
====
